---- MODULE Spec2Model ----
(***************************************************************************)
(* Model of the streaming in-situ XML reader (oxml::Reader) and of the     *)
(* event-driven document parser (XmlParser) of Xournal++.                  *)
(*                                                                         *)
(* Bytes are integers 0..255.  An iterator of the Reader (dataStart,       *)
(* currentPos, dataEnd, firstOffset) is an index into the buffer, 0 being  *)
(* buffer.begin(); a char pointer (the data pointer of a string_view, the  *)
(* local iterator `start`) is an absolute address, base + index, so that a *)
(* reallocation of the buffer changes addresses and keeps indices.         *)
(***************************************************************************)
EXTENDS Integers, Sequences, FiniteSets, TLC

VARIABLES
    input,      \* the bytes the input stream delivers, in order
    expected,   \* the logical nodes of the document `input` renders
    wellFormed, \* TRUE when `input` renders a well-formed document
    rd,         \* the Reader, fed by the read callback in chunks
    out,        \* what each readNode() call on rd gave: a node's content or an error
    ref,        \* a second Reader on the same bytes, fed as much as fits per call
    refOut,     \* what each readNode() call on ref gave
    hierarchy,  \* XmlParser::hierarchy, the stack of open tag kinds (top is last)
    openNames,  \* history: the names of the elements on `hierarchy`
    frames,     \* the active parse() calls: processNodeFunction, startDepth
    bnode,      \* the node read last and not yet processed
    events,     \* the calls made on the LoadHandler, in order
    args,       \* the arguments of each of these calls, as far as they are modelled
    tempFilename,       \* XmlParser::tempFilename
    tempTimestamp,      \* XmlParser::tempTimestamp
    pdfFilenameParsed,  \* XmlParser::pdfFilenameParsed
    pressureBuffer,     \* XmlParser::pressureBuffer
    strokeAttr,         \* history: the attributes of the stroke tag parsed last
    pstatus,    \* "running", "returned" or "failed"
    perror,     \* the exception parse() threw
    stream,     \* the node stream the parser's reader delivers
    complete,   \* LoadHandler::isParsingComplete()
    passerts    \* TRUE while no xoj_assert of the parser has failed

vars == <<input, expected, wellFormed, rd, out, ref, refOut, hierarchy, openNames,
          frames, bnode, events, pstatus, perror, stream, complete, passerts,
          args, tempFilename, tempTimestamp, pdfFilenameParsed, pressureBuffer,
          strokeAttr>>

readerVars == <<input, expected, wellFormed, rd, out, ref, refOut>>
parserVars == <<hierarchy, openNames, frames, bnode, events, pstatus, perror, stream,
                complete, passerts, args, tempFilename, tempTimestamp, pdfFilenameParsed,
                pressureBuffer, strokeAttr>>

-----------------------------------------------------------------------------
(* Bounds of the model *)

\* Stands for INITIAL_BUFFER_SIZE (1 << 10), scaled down so that the bounded
\* inputs make the buffer fill up, shift and grow.
InitialBufferSize == 4
\* The longest content (text or attribute value), in items.
MaxItems == 2

-----------------------------------------------------------------------------
(* Characters *)

Ch(c) ==
    CASE c = "<" -> 60 [] c = ">" -> 62 [] c = "/" -> 47 [] c = "&" -> 38
      [] c = ";" -> 59 [] c = "#" -> 35 [] c = "=" -> 61 [] c = "\"" -> 34
      [] c = "'" -> 39 [] c = " " -> 32 [] c = "!" -> 33 [] c = "-" -> 45
      [] c = "?" -> 63 [] c = "[" -> 91 [] c = "]" -> 93 [] c = ":" -> 58
      [] c = "_" -> 95 [] c = "0" -> 48 [] c = "1" -> 49 [] c = "2" -> 50
      [] c = "3" -> 51 [] c = "4" -> 52 [] c = "5" -> 53 [] c = "6" -> 54
      [] c = "7" -> 55 [] c = "8" -> 56 [] c = "9" -> 57 [] c = "A" -> 65
      [] c = "B" -> 66 [] c = "C" -> 67 [] c = "D" -> 68 [] c = "E" -> 69
      [] c = "F" -> 70 [] c = "M" -> 77 [] c = "T" -> 84 [] c = "W" -> 87
      [] c = "a" -> 97
      [] c = "b" -> 98 [] c = "c" -> 99 [] c = "d" -> 100 [] c = "e" -> 101
      [] c = "f" -> 102 [] c = "g" -> 103 [] c = "h" -> 104 [] c = "i" -> 105
      [] c = "j" -> 106 [] c = "k" -> 107 [] c = "l" -> 108 [] c = "m" -> 109
      [] c = "n" -> 110 [] c = "o" -> 111 [] c = "p" -> 112 [] c = "q" -> 113
      [] c = "r" -> 114 [] c = "s" -> 115 [] c = "t" -> 116 [] c = "u" -> 117
      [] c = "v" -> 118 [] c = "w" -> 119 [] c = "x" -> 120 [] c = "y" -> 121
      [] c = "z" -> 122

Bytes(s) == [i \in 1..Len(s) |-> Ch(s[i])]

\* std::isspace and std::isalnum in the "C" locale
isspace(c) == c \in 9..13 \/ c = 32
isalnum(c) == c \in 48..57 \/ c \in 65..90 \/ c \in 97..122

Min(a, b) == IF a < b THEN a ELSE b

\* a local variable: With([x \in {e} |-> body]) is body with x standing for e
With(f) == f[CHOOSE x \in DOMAIN f : TRUE]

-----------------------------------------------------------------------------
(* string_view and Node *)

SV(p, n) == [ptr |-> p, len |-> n]
NullSv == SV(0, 0)

shiftStringView(sv, distance) ==
    IF sv.len # 0 THEN [sv EXCEPT !.ptr = @ + distance] ELSE sv

NoNode == [type |-> "none", name |-> NullSv, empty |-> FALSE,
           attributes |-> <<>>, text |-> NullSv]
NewNode(t) == [NoNode EXCEPT !.type = t]

shiftData(node, distance) ==
    CASE node.type = "opening" ->
            [node EXCEPT !.name = shiftStringView(@, distance),
                         !.attributes = [i \in DOMAIN @ |->
                              [name |-> shiftStringView(@[i].name, distance),
                               value |-> shiftStringView(@[i].value, distance)]]]
      [] node.type = "closing" -> [node EXCEPT !.name = shiftStringView(@, distance)]
      [] node.type = "text" -> [node EXCEPT !.text = shiftStringView(@, distance)]
      [] OTHER -> node

\* The slices a node holds
Slices(node) ==
    CASE node.type = "opening" ->
            {node.name}
                \cup {node.attributes[i].name : i \in DOMAIN node.attributes}
                \cup {node.attributes[i].value : i \in DOMAIN node.attributes}
      [] node.type = "closing" -> {node.name}
      [] node.type = "text" -> {node.text}
      [] OTHER -> {}

\* Does the slice lie in the buffer's allocation?
InBuffer(r, sv) ==
    /\ sv.len >= 0
    /\ sv.ptr >= r.base
    /\ sv.ptr + sv.len <= r.base + Len(r.buffer)

\* The bytes a slice denotes; <<-1>> when it reaches outside the buffer, where
\* reading is undefined.
SvBytes(r, sv) ==
    IF sv.len = 0 THEN <<>>
    ELSE IF InBuffer(r, sv)
         THEN SubSeq(r.buffer, sv.ptr - r.base + 1, sv.ptr - r.base + sv.len)
         ELSE <<-1>>

\* A node by content, as the caller of readNode() sees it
NodeContent(r, node) ==
    [type |-> node.type,
     name |-> SvBytes(r, node.name),
     empty |-> node.empty,
     attributes |-> [i \in DOMAIN node.attributes |->
                        [name |-> SvBytes(r, node.attributes[i].name),
                         value |-> SvBytes(r, node.attributes[i].value)]],
     text |-> SvBytes(r, node.text)]

-----------------------------------------------------------------------------
(* Reader *)

\* Reader::Reader.  sched is the read callback's behaviour: the numbers of
\* bytes it is willing to deliver per call, taken cyclically.
NewReader(sched, hardened) ==
    [buffer |-> [i \in 1..InitialBufferSize |-> 0],
     base |-> 1000,
     dataStart |-> 0, currentPos |-> 0, dataEnd |-> 0,
     hasMoreData |-> TRUE,
     lastNodeWasOpening |-> FALSE,
     currentNode |-> NoNode,
     tempAttrName |-> NullSv,
     readingOffset |-> 0,
     firstOffset |-> InitialBufferSize,
     status |-> "ok",           \* "failed" once an exception is thrown, "ub" on undefined behaviour
     error |-> "",
     assertsOk |-> TRUE,        \* no xoj_assert has failed
     ordered |-> TRUE,          \* history: the cursors were in order at every step
     sched |-> sched, calls |-> 0, inPos |-> 0,
     readError |-> FALSE,       \* the input stream is broken: the read callback returns -1
     calledAtEof |-> FALSE,     \* history: the read callback was invoked after it returned 0
     refsOk |-> TRUE,           \* history: every reference was replaced within its own bytes
     alive |-> TRUE,            \* FALSE once the destructor has run
     closed |-> 0,              \* how often the close callback has been invoked
     allocGap |-> 0,            \* where the allocator puts the next buffer
     hardened |-> hardened,     \* the standard library checks preconditions and aborts
     moveLog |-> <<>>,          \* history: moves of the data under a node being built
     shiftLog |-> <<>>,         \* history: shifts applied to that node's slices
     stored |-> NoNode,         \* history: the bytes of each slice when it was stored
     returned |-> NoNode]       \* the node the last readNode() call returned

Throw(r, what) == [r EXCEPT !.status = "failed", !.error = what]
Undefined(r) == [r EXCEPT !.status = "ub"]

\* the read callback: how many bytes it writes for a request of len bytes
readCallback(r, len) ==
    IF r.readError THEN -1
    ELSE Min(Min(r.sched[(r.calls % Len(r.sched)) + 1], len), Len(input) - r.inPos)

\* std::memmove inside the buffer
memmove(buffer, dst, src, n) ==
    [i \in 1..Len(buffer) |->
        IF i - 1 >= dst /\ i - 1 < dst + n THEN buffer[i - dst + src] ELSE buffer[i]]

\* buffer.begin() <= dataStart <= currentPos <= dataEnd <= buffer.end()
CursorsOrdered(r) ==
    /\ 0 <= r.dataStart /\ r.dataStart <= r.currentPos
    /\ r.currentPos <= r.dataEnd /\ r.dataEnd <= Len(r.buffer)
\* records whether the cursors are in order at this point
Track(r) == [r EXCEPT !.ordered = @ /\ CursorsOrdered(r)]

addressShift(r, oldDataStart) ==
    IF r.status # "ok" THEN [r |-> r, v |-> 0] ELSE
    LET shift == (r.base + r.dataStart) - oldDataStart IN
    IF shift # 0 /\ r.currentNode.type # "none"
    THEN [r |-> [r EXCEPT !.currentNode = shiftData(@, shift),
                          !.tempAttrName = shiftStringView(@, shift),
                          !.shiftLog = Append(@, shift)],
          v |-> shift]
    ELSE [r |-> r, v |-> shift]

refillBuffer(r) ==
    IF r.status # "ok" THEN [r |-> r, v |-> 0] ELSE
    LET size == Len(r.buffer) IN
    With([r0 \in {IF r.currentNode.type = "none"
                  THEN [Track(r) EXCEPT !.dataStart = r.currentPos] ELSE Track(r)} |->
    With([r1 \in {IF r0.dataStart # 0 /\ r0.dataStart # r0.dataEnd
                  THEN LET shift == 0 - r0.dataStart IN
                       [r0 EXCEPT !.buffer = memmove(@, 0, r0.dataStart,
                                                     r0.dataEnd - r0.dataStart),
                                  !.dataEnd = @ + shift,
                                  !.currentPos = @ + shift,
                                  !.firstOffset = @ + shift,
                                  !.dataStart = 0]
                  ELSE IF r0.dataStart = r0.dataEnd
                  THEN [r0 EXCEPT !.dataStart = 0, !.currentPos = 0, !.dataEnd = 0,
                                  !.assertsOk = @ /\ (r0.readingOffset = 0),
                                  !.firstOffset = size]
                  ELSE IF r0.dataStart = 0 /\ r0.dataEnd = size
                  THEN [r0 EXCEPT !.buffer = @ \o [i \in 1..size |-> 0],
                                  !.base = @ + size + r0.allocGap]
                  ELSE r0} |->
        LET oldDataStart == r0.base + r0.dataStart
            bytesRead == readCallback(r1, Len(r1.buffer) - r1.dataEnd)
        IN IF bytesRead < 0
           THEN [r |-> Throw(Track([r1 EXCEPT !.calls = @ + 1,
                                              !.calledAtEof = @ \/ ~r1.hasMoreData]),
                             "Read error occurred"),
                 v |-> 0]
           ELSE
           addressShift(
               Track([r1 EXCEPT
                  !.buffer = [i \in 1..Len(@) |->
                                IF i - 1 >= r1.dataEnd /\ i - 1 < r1.dataEnd + bytesRead
                                THEN input[r1.inPos + i - r1.dataEnd] ELSE @[i]],
                  !.dataEnd = @ + bytesRead,
                  !.inPos = @ + bytesRead,
                  !.calls = @ + 1,
                  !.calledAtEof = @ \/ ~r1.hasMoreData,
                  !.hasMoreData = IF bytesRead = 0 THEN FALSE ELSE @,
                  !.moveLog = IF r1.currentNode.type # "none"
                                 /\ r1.base + r1.dataStart # oldDataStart
                              THEN Append(@, r1.base + r1.dataStart - oldDataStart)
                              ELSE @]),
               oldDataStart)])])

peek(r) ==
    IF r.status # "ok" THEN [r |-> r, v |-> 0] ELSE
    With([r1 \in {IF r.currentPos = r.dataEnd /\ r.hasMoreData
                  THEN refillBuffer(r).r ELSE r} |->
        [r |-> r1,
         v |-> IF r1.currentPos # r1.dataEnd THEN r1.buffer[r1.currentPos + 1] ELSE 0]])

\* advance that steps over the end of the data
advanceUnchecked(r) ==
    IF r.status # "ok" THEN r ELSE Track([r EXCEPT !.currentPos = @ + 1])

advance(r) ==
    IF r.status # "ok" THEN r ELSE
    IF r.currentPos # r.dataEnd THEN Track([r EXCEPT !.currentPos = @ + 1]) ELSE r

RECURSIVE skipWhitespace(_)
skipWhitespace(r) ==
    With([p \in {peek(r)} |->
        IF p.r.status = "ok" /\ isspace(p.v) THEN skipWhitespace(advance(p.r)) ELSE p.r])

moveOffsetData(r) ==
    IF r.status # "ok" THEN r ELSE
    IF r.readingOffset # 0
    THEN LET movingBlockSize == r.currentPos - r.firstOffset
             r1 == [r EXCEPT !.assertsOk = @ /\ (movingBlockSize >= 0)]
         IN IF movingBlockSize > 0
            THEN IF r.firstOffset - r.readingOffset < 0
                 THEN Undefined(r1)
                 ELSE [r1 EXCEPT !.buffer = memmove(@, r.firstOffset - r.readingOffset,
                                                    r.firstOffset, movingBlockSize),
                                 !.firstOffset = r.currentPos]
            ELSE r1
    ELSE r

predefinedEntities ==
    << [first |-> Bytes(<<"a", "m", "p">>), second |-> Ch("&")],
       [first |-> Bytes(<<"l", "t">>), second |-> Ch("<")],
       [first |-> Bytes(<<"g", "t">>), second |-> Ch(">")],
       [first |-> Bytes(<<"a", "p", "o", "s">>), second |-> Ch("'")],
       [first |-> Bytes(<<"q", "u", "o", "t">>), second |-> Ch("\"")] >>

\* the value of a digit in the base, -1 when it is none
DigitValue(c, base) ==
    IF c \in 48..57 /\ c - 48 < base THEN c - 48
    ELSE IF base = 16 /\ c \in 97..102 THEN c - 87
    ELSE IF base = 16 /\ c \in 65..70 THEN c - 55
    ELSE -1

\* std::from_chars into a gunichar that was value-initialised: the number
\* the longest prefix of digits denotes, 0 when there is no digit.
RECURSIVE FromCharsFrom(_, _, _, _)
FromCharsFrom(digits, i, base, acc) ==
    IF i > Len(digits) \/ DigitValue(digits[i], base) < 0 THEN acc
    ELSE FromCharsFrom(digits, i + 1, base, acc * base + DigitValue(digits[i], base))

from_chars(digits, base) == FromCharsFrom(digits, 1, base, 0)

\* g_unichar_to_utf8
g_unichar_to_utf8(c) ==
    IF c < 128 THEN <<c>>
    ELSE IF c < 2048 THEN <<192 + (c \div 64), 128 + (c % 64)>>
    ELSE IF c < 65536
         THEN <<224 + (c \div 4096), 128 + ((c \div 64) % 64), 128 + (c % 64)>>
    ELSE IF c < 2097152
         THEN <<240 + (c \div 262144), 128 + ((c \div 4096) % 64),
                128 + ((c \div 64) % 64), 128 + (c % 64)>>
    ELSE <<248 + (c \div 16777216), 128 + ((c \div 262144) % 64),
           128 + ((c \div 4096) % 64), 128 + ((c \div 64) % 64), 128 + (c % 64)>>

\* write bytes into the buffer at index `at`
WriteAt(r, at, bytes) ==
    IF at < 0 \/ at + Len(bytes) > Len(r.buffer) THEN Undefined(r)
    ELSE [r EXCEPT !.buffer = [i \in 1..Len(@) |->
                                  IF i - 1 >= at /\ i - 1 < at + Len(bytes)
                                  THEN bytes[i - at] ELSE @[i]]]

\* history: `n` bytes written at `target` lie in the data of the node being
\* built, up to the ';' of the reference, which currentPos is at
WithinReference(r, target, n) ==
    target >= r.dataStart /\ target + n - 1 <= r.currentPos

replaceUnicodeReference(r, codepointSv, base, entitySize) ==
    IF r.status # "ok" THEN r ELSE
    IF codepointSv.len # 0
    THEN IF ~InBuffer(r, codepointSv) THEN Undefined(r)
         ELSE LET codepoint == from_chars(SvBytes(r, codepointSv), base)
                  utf8 == g_unichar_to_utf8(codepoint)
                  numBytes == Len(utf8)
                  target == r.currentPos - r.readingOffset - entitySize - 1
                  w == WriteAt(r, target, utf8)
              IN [w EXCEPT !.readingOffset = @ + entitySize + 2 - numBytes,
                           !.firstOffset = r.currentPos + 1,
                           !.refsOk = @ /\ WithinReference(r, target, numBytes)
                                        /\ r.readingOffset + entitySize + 2 - numBytes >= 0]
    ELSE r

RECURSIVE parseWhileFrom(_, _, _, _)

\* TerminationCondition: parseName's character class, or parseUntil's lambda
NameCondition == [name |-> TRUE, terminator |-> 0]
UntilCondition(terminator) == [name |-> FALSE, terminator |-> terminator]
func(cond, c) ==
    IF cond.name THEN isalnum(c) \/ c = Ch(":") \/ c = Ch("_") \/ c = Ch("-")
    ELSE c # cond.terminator

parseUntilFrom(r, start, terminator, ignoreCR) ==
    parseWhileFrom(r, start, UntilCondition(terminator), FALSE)

parseUntil(r, terminator, ignoreCR) ==
    LET start == r.base + r.currentPos IN
    parseUntilFrom(r, start, terminator, ignoreCR)

replaceCharacterReference(r) ==
    With([r1 \in {advance(moveOffsetData(r))} |->
    With([p \in {parseUntil(r1, Ch(";"), TRUE)} |->
        LET oldDataStart == r1.base + r1.dataStart
            r2 == p.r
            entitySv == p.v
            found == {i \in DOMAIN predefinedEntities :
                         predefinedEntities[i].first = SvBytes(r2, entitySv)}
        IN addressShift(
               Track(
               IF r2.status # "ok" THEN r2
               ELSE IF entitySv.len < 0
               THEN \* a wrapped length equals no entity's and is >= 2; front() is read
                    IF ~InBuffer(r2, SV(entitySv.ptr, 1)) THEN Undefined(r2)
                    ELSE IF SvBytes(r2, SV(entitySv.ptr, 1))[1] = Ch("#")
                    THEN \* from_chars over a range whose end precedes its begin; the
                         \* place replaceUnicodeReference writes at is fixed before
                         [Undefined(r2) EXCEPT !.refsOk =
                              @ /\ WithinReference(r2, r2.currentPos - r2.readingOffset
                                                           - entitySv.len - 1, 1)]
                    ELSE r2
               ELSE IF entitySv.len # 0 /\ ~InBuffer(r2, entitySv) THEN Undefined(r2)
               ELSE IF found # {}
               THEN LET entity == predefinedEntities[CHOOSE i \in found : TRUE]
                        ro == r2.readingOffset + Len(entity.first) + 1
                    IN [WriteAt(r2, r2.currentPos - ro, <<entity.second>>)
                           EXCEPT !.readingOffset = ro,
                                  !.firstOffset = r2.currentPos + 1,
                                  !.refsOk = @ /\ WithinReference(r2, r2.currentPos - ro, 1)]
               ELSE IF entitySv.len >= 2 /\ SvBytes(r2, entitySv)[1] = Ch("#")
               THEN IF SvBytes(r2, entitySv)[2] = Ch("x")
                    THEN replaceUnicodeReference(
                             r2, SV(entitySv.ptr + 2, entitySv.len - 2), 16, entitySv.len)
                    ELSE replaceUnicodeReference(
                             r2, SV(entitySv.ptr + 1, entitySv.len - 1), 10, entitySv.len)
               ELSE r2),
               oldDataStart)])])

\* the while loop of parseWhileFrom; gives the reader and the moved `start`
RECURSIVE parseWhileLoop(_, _, _, _)
parseWhileLoop(r, start, cond, ignoreCR) ==
    IF r.status = "ok" /\ r.currentPos # r.dataEnd /\ func(cond, r.buffer[r.currentPos + 1])
    THEN With([a \in {IF r.buffer[r.currentPos + 1] = Ch("&") /\ ~ignoreCR
                      THEN replaceCharacterReference(r)
                      ELSE [r |-> r, v |-> 0]} |->
             parseWhileLoop(IF a.r.status = "ok" THEN advance(a.r) ELSE a.r,
                            start + a.v, cond, ignoreCR)])
    ELSE [r |-> r, start |-> start]

parseWhileFrom(r, start, cond, ignoreCR) ==
    With([l \in {parseWhileLoop(r, start, cond, ignoreCR)} |->
        IF l.r.status # "ok" THEN [r |-> l.r, v |-> NullSv]
        ELSE IF l.r.currentPos = l.r.dataEnd
        THEN IF l.r.hasMoreData
             THEN With([f \in {refillBuffer(l.r)} |->
                      parseWhileFrom(f.r, l.start + f.v, cond, ignoreCR)])
             ELSE [r |-> Throw(l.r, "Unexpected end of data while parsing"), v |-> NullSv]
        ELSE IF ignoreCR
        THEN [r |-> l.r, v |-> SV(l.start, l.r.base + l.r.currentPos - l.start)]
        ELSE With([r2 \in {moveOffsetData(l.r)} |->
                 LET size == r2.base + r2.currentPos - r2.readingOffset - l.start IN
                 IF r2.status # "ok" THEN [r |-> r2, v |-> NullSv]
                 ELSE IF size < 0 /\ r2.hardened
                 THEN \* a string_view whose length does not fit: the precondition
                      \* of its constructor is broken, a hardened library aborts
                      [r |-> Undefined(r2), v |-> NullSv]
                 ELSE \* size < 0 otherwise stands for the wrapped size_t
                      [r |-> [r2 EXCEPT !.readingOffset = 0,
                                        !.firstOffset = Len(r2.buffer)],
                       v |-> SV(l.start, size)]])])

parseWhile(r, cond, ignoreCR) ==
    LET start == r.base + r.currentPos IN
    parseWhileFrom(r, start, cond, ignoreCR)

parseName(r) == parseWhile(r, NameCondition, FALSE)

\* the state after an assignment that follows a call: none when the call threw
After(r, assigned) == IF r.status = "ok" THEN assigned ELSE r

\* the while loop of parseOpeningNode
RECURSIVE parseAttributes(_)
parseAttributes(r) ==
    With([p1 \in {peek(r)} |->
    With([p2 \in {IF p1.v # Ch("/") THEN peek(p1.r) ELSE p1} |->
        IF p2.r.status = "ok" /\ p1.v # Ch("/") /\ p2.v # Ch(">")
        THEN With([n \in {parseName(p2.r)} |->
             With([quote \in {peek(advance(                       \* Skip '='
                       After(n.r, [n.r EXCEPT
                           !.tempAttrName = n.v,
                           !.stored.attributes = Append(@,
                               [name |-> SvBytes(n.r, n.v), value |-> <<>>])])))} |->
             With([attrValue \in {parseUntil(advance(quote.r),    \* Skip opening quote
                                             quote.v, FALSE)} |->
             With([r4 \in {advance(attrValue.r)} |->              \* Skip closing quote
                 parseAttributes(skipWhitespace(
                     After(r4, [r4 EXCEPT
                         !.currentNode.attributes =
                             Append(@, [name |-> r4.tempAttrName, value |-> attrValue.v]),
                         !.stored.attributes[Len(r4.stored.attributes)].value =
                             SvBytes(r4, attrValue.v),
                         !.tempAttrName = NullSv])))])])])])
        ELSE p2.r])])

parseOpeningNode(r) ==
    With([n \in {parseName([r EXCEPT !.dataStart = r.currentPos,
                                     !.currentNode = NewNode("opening"),
                                     !.stored = NodeContent(r, NewNode("opening"))])} |->
    With([p \in {peek(parseAttributes(skipWhitespace(
                     After(n.r, [n.r EXCEPT !.currentNode.name = n.v,
                                            !.stored.name = SvBytes(n.r, n.v)]))))} |->
    With([r5 \in {advance(                                        \* Skip '>'
                      IF p.v = Ch("/")
                      THEN advance(                               \* Skip '/'
                               After(p.r, [p.r EXCEPT !.currentNode.empty = TRUE,
                                                      !.stored.empty = TRUE]))
                      ELSE p.r)} |->
        IF r5.status # "ok" THEN [r |-> r5, v |-> NoNode]
        ELSE [r |-> [r5 EXCEPT !.currentNode = NoNode, !.lastNodeWasOpening = TRUE],
              v |-> r5.currentNode]])])])

parseClosingNode(r) ==
    With([r0 \in {advance(r)} |->                                 \* Skip '/'
    With([n \in {parseName([r0 EXCEPT !.dataStart = r0.currentPos,
                                      !.currentNode = NewNode("closing"),
                                      !.stored = NodeContent(r0, NewNode("closing"))])} |->
    With([r3 \in {advance(                                        \* Skip '>'
                      After(n.r, [n.r EXCEPT !.currentNode.name = n.v,
                                             !.stored.name = SvBytes(n.r, n.v)]))} |->
        IF r3.status # "ok" THEN [r |-> r3, v |-> NoNode]
        ELSE [r |-> [r3 EXCEPT !.currentNode = NoNode, !.lastNodeWasOpening = FALSE],
              v |-> r3.currentNode]])])])

\* gives the node "none" for the nullptr of a whitespace-only text
parseTextNode(r) ==
    With([t \in {parseUntil([r EXCEPT !.dataStart = r.currentPos,
                                      !.currentNode = NewNode("text"),
                                      !.stored = NodeContent(r, NewNode("text"))],
                            Ch("<"), FALSE)} |->
    With([r2 \in {After(t.r, [t.r EXCEPT !.currentNode.text = t.v,
                                         !.stored.text = SvBytes(t.r, t.v)])} |->
        LET text == SvBytes(r2, r2.currentNode.text) IN
        IF r2.status # "ok" THEN [r |-> r2, v |-> NoNode]
        ELSE [r |-> [r2 EXCEPT !.currentNode = NoNode, !.lastNodeWasOpening = FALSE],
              v |-> IF \A i \in DOMAIN text : isspace(text[i])
                    THEN NoNode ELSE r2.currentNode]])])

ignoreNodeEnd(r) == advance(parseUntil(r, Ch(">"), TRUE).r)

\* the do-while loop of ignoreSpecialXML
RECURSIVE skipComment(_)
skipComment(r) ==
    \* advance() skips the first candidate closing hyphen
    With([p \in {peek(advance(parseUntil(r, Ch("-"), TRUE).r))} |->
        IF p.r.status = "ok" /\ p.v # Ch("-") /\ p.r.currentPos # p.r.dataEnd
        THEN skipComment(p.r) ELSE p.r])

ignoreSpecialXML(r) ==
    With([p \in {peek(advance(r))} |->                            \* Skip '!'
        IF p.v = Ch("-")
        THEN With([q \in {peek(advance(p.r))} |->                 \* Skip first '-'
                 IF q.v = Ch("-")
                 THEN With([r3 \in {skipComment(advance(q.r))} |->
                          ignoreNodeEnd(After(r3, [r3 EXCEPT !.lastNodeWasOpening = TRUE]))])
                 ELSE q.r])
        ELSE ignoreNodeEnd(IF p.v = Ch("[")
                           THEN parseUntil(p.r, Ch("]"), TRUE).r  \* CDATA section
                           ELSE p.r)])                            \* Other declarations

EndNode == NewNode("end")

RECURSIVE readNode(_)
readNode(r) ==
    With([r1 \in {IF ~r.lastNodeWasOpening THEN skipWhitespace(r)
                  ELSE IF r.currentPos = r.dataEnd THEN refillBuffer(r).r
                  ELSE r} |->
    With([c \in {peek(r1)} |->
        IF r1.status # "ok" THEN [r |-> r1, v |-> NoNode]
        ELSE IF r1.currentPos = r1.dataEnd /\ ~r1.hasMoreData THEN [r |-> r1, v |-> EndNode]
        ELSE IF c.v = Ch("<") \/ c.v = 0
        THEN With([p \in {peek(advance(c.r))} |->
                 IF p.r.status # "ok" THEN [r |-> p.r, v |-> NoNode]
                 ELSE IF p.v = Ch("/") THEN parseClosingNode(p.r)
                 ELSE IF p.v = Ch("?") \/ p.v = Ch("!")
                 THEN readNode(IF p.v = Ch("?")
                               THEN ignoreNodeEnd(p.r)            \* Ignore prolog
                               ELSE ignoreSpecialXML(p.r))
                 ELSE parseOpeningNode(p.r)])
        ELSE IF r1.lastNodeWasOpening
        THEN With([res \in {parseTextNode(c.r)} |->
                 IF res.r.status = "ok" /\ res.v.type = "none" THEN readNode(res.r) ELSE res])
        ELSE [r |-> Throw(c.r, "Unexpected character found outside node."),
              v |-> NoNode]])])

\* nullTerminate that lets a slice end where the buffer ends
nullTerminateLenient(r, sv) ==
    LET begin == sv.ptr - r.base
        end == begin + sv.len
    IN IF begin < 0 \/ end > Len(r.buffer)
       THEN [r |-> Throw(r, "Requested to null-terminate a string view outside the buffer."),
             v |-> 0]
       ELSE [r |-> [r EXCEPT !.buffer[end + 1] = 0], v |-> sv.ptr]

\* the value returned is sv.data(), an address
nullTerminate(r, sv) ==
    LET begin == sv.ptr - r.base
        end == begin + sv.len
    IN IF begin < 0 \/ end >= Len(r.buffer)
       THEN [r |-> Throw(r, "Requested to null-terminate a string view outside the buffer."),
             v |-> 0]
       ELSE [r |-> [r EXCEPT !.buffer[end + 1] = 0], v |-> sv.ptr]

-----------------------------------------------------------------------------
(* The input streams of the Reader *)

\* What a text or an attribute value is made of: raw is what the stream holds,
\* exp what the node must carry.
Items ==
    { [raw |-> Bytes(<<"x">>), exp |-> Bytes(<<"x">>), kind |-> "literal"],
      [raw |-> Bytes(<<" ">>), exp |-> Bytes(<<" ">>), kind |-> "space"],
      [raw |-> Bytes(<<"&", "#", "6", "5", ";">>), exp |-> Bytes(<<"A">>),
       kind |-> "numeric"],
      [raw |-> Bytes(<<"&", "#", "x", "4", "E", "2", "D", ";">>),
       exp |-> <<228, 184, 173>>, kind |-> "numeric"],
      [raw |-> Bytes(<<"&", "f", "o", "o", ";">>),
       exp |-> Bytes(<<"&", "f", "o", "o", ";">>), kind |-> "unknown"] }
    \cup { [raw |-> <<Ch("&")>> \o predefinedEntities[i].first \o <<Ch(";")>>,
            exp |-> <<predefinedEntities[i].second>>, kind |-> "predefined"] :
                i \in DOMAIN predefinedEntities }

Contents == UNION {[1..n -> Items] : n \in 0..MaxItems}

RECURSIVE Raw(_)
Raw(content) == IF content = <<>> THEN <<>> ELSE Head(content).raw \o Raw(Tail(content))
RECURSIVE Expansion(_)
Expansion(content) ==
    IF content = <<>> THEN <<>> ELSE Head(content).exp \o Expansion(Tail(content))

Kinds(content) == {content[i].kind : i \in DOMAIN content}

\* the spec's example: a&amp;b&lt;c&gt;d&apos;e&quot;f
Lit(c) == [raw |-> Bytes(<<c>>), exp |-> Bytes(<<c>>), kind |-> "literal"]
PredefinedItem(i) ==
    [raw |-> <<Ch("&")>> \o predefinedEntities[i].first \o <<Ch(";")>>,
     exp |-> <<predefinedEntities[i].second>>, kind |-> "predefined"]
ExampleContent ==
    << Lit("a"), PredefinedItem(1), Lit("b"), PredefinedItem(2), Lit("c"),
       PredefinedItem(3), Lit("d"), PredefinedItem(4), Lit("e"), PredefinedItem(5),
       Lit("f") >>

OpeningOf(name, empty, attributes) ==
    [type |-> "opening", name |-> name, empty |-> empty, attributes |-> attributes,
     text |-> <<>>]
ClosingOf(name) ==
    [type |-> "closing", name |-> name, empty |-> FALSE, attributes |-> <<>>,
     text |-> <<>>]
TextOf(text) ==
    [type |-> "text", name |-> <<>>, empty |-> FALSE, attributes |-> <<>>, text |-> text]
EndOf ==
    [type |-> "end", name |-> <<>>, empty |-> FALSE, attributes |-> <<>>, text |-> <<>>]

IsBlank(bytes) == \A i \in DOMAIN bytes : isspace(bytes[i])

\* <a>content</a>
TextDoc(content) ==
    [input |-> Bytes(<<"<", "a", ">">>) \o Raw(content) \o Bytes(<<"<", "/", "a", ">">>),
     expected |-> <<OpeningOf(Bytes(<<"a">>), FALSE, <<>>)>>
                    \o (IF IsBlank(Expansion(content)) THEN <<>>
                        ELSE <<TextOf(Expansion(content))>>)
                    \o <<ClosingOf(Bytes(<<"a">>)), EndOf>>,
     content |-> content, family |-> "text"]

\* <r><a b="content"/></r>
AttrDoc(content) ==
    [input |-> Bytes(<<"<", "r", ">", "<", "a", " ", "b", "=", "\"">>) \o Raw(content)
                 \o Bytes(<<"\"", "/", ">", "<", "/", "r", ">">>),
     expected |-> << OpeningOf(Bytes(<<"r">>), FALSE, <<>>),
                     OpeningOf(Bytes(<<"a">>), TRUE,
                               <<[name |-> Bytes(<<"b">>), value |-> Expansion(content)]>>),
                     ClosingOf(Bytes(<<"r">>)), EndOf >>,
     content |-> content, family |-> "attribute"]

\* <ab c="" d='content'></ab>
TwoAttrDoc(content) ==
    [input |-> Bytes(<<"<", "a", "b", " ", "c", "=", "\"", "\"", " ", "d", "=", "'">>)
                 \o Raw(content) \o Bytes(<<"'", ">", "<", "/", "a", "b", ">">>),
     expected |-> << OpeningOf(Bytes(<<"a", "b">>), FALSE,
                               << [name |-> Bytes(<<"c">>), value |-> <<>>],
                                  [name |-> Bytes(<<"d">>), value |-> Expansion(content)] >>),
                     ClosingOf(Bytes(<<"a", "b">>)), EndOf >>,
     content |-> content, family |-> "attributes"]

Docs ==
    {TextDoc(c) : c \in Contents \cup {ExampleContent}}
        \cup {AttrDoc(c) : c \in Contents \cup {ExampleContent}}
        \cup {TwoAttrDoc(c) : c \in Contents}

\* how many bytes the read callback delivers per call, cyclically
Schedules == {<<1>>, <<2>>, <<3>>, <<7>>, <<64>>}
\* a callback that fills whatever it is given (the stream in 1 MiB chunks)
WholeSchedule == <<1048576>>
\* the distance between a grown buffer and the one it replaces
AllocGaps == {0, 100}

-----------------------------------------------------------------------------
(* The Reader's specification: readNode() until End or an error *)

\* no exception
NoError == [what |-> "", closing |-> "", open |-> ""]

ParserIdle ==
    /\ hierarchy = <<>> /\ openNames = <<>> /\ frames = <<>> /\ bnode = NoNode
    /\ events = <<>> /\ pstatus = "idle" /\ perror = NoError /\ stream = <<>>
    /\ complete = FALSE /\ passerts = TRUE
    /\ args = <<>> /\ tempFilename = "" /\ tempTimestamp = 0 /\ pdfFilenameParsed = FALSE
    /\ pressureBuffer = <<>> /\ strokeAttr = <<>>

InitReader ==
    /\ \E d \in Docs :
          /\ input = d.input
          /\ expected = d.expected
          /\ wellFormed = ("unknown" \notin Kinds(d.content))
    /\ \E s \in Schedules, h \in BOOLEAN :
          /\ rd = NewReader(s, h)
          /\ ref = NewReader(WholeSchedule, h)
    /\ out = <<>>
    /\ refOut = <<>>
    /\ ParserIdle

\* the caller goes on reading until End or an exception
Active(r) == r.status = "ok" /\ r.returned.type # "end"

\* what a readNode() call gave its caller
Outcome(r) ==
    IF r.status = "ok" THEN NodeContent(r, r.returned)
    ELSE [type |-> r.status, name |-> <<>>, empty |-> FALSE, attributes |-> <<>>,
          text |-> <<>>]

\* one readNode() call, the allocator placing a grown buffer at distance gap
Call(r, gap) ==
    With([res \in {readNode([r EXCEPT !.allocGap = gap, !.moveLog = <<>>,
                                      !.shiftLog = <<>>, !.stored = NoNode])} |->
        [res.r EXCEPT !.returned = res.v, !.allocGap = 0]])

ReadNode ==
    /\ rd.alive
    /\ Active(rd) \/ Active(ref)
    /\ \E gap \in AllocGaps :
          /\ rd' = IF Active(rd) THEN Call(rd, gap) ELSE rd
          /\ ref' = IF Active(ref) THEN Call(ref, gap) ELSE ref
    /\ out' = IF Active(rd) THEN Append(out, Outcome(rd')) ELSE out
    /\ refOut' = IF Active(ref) THEN Append(refOut, Outcome(ref')) ELSE refOut
    /\ UNCHANGED <<input, expected, wellFormed>>
    /\ UNCHANGED parserVars

NextReader == ReadNode

SpecReader == InitReader /\ [][NextReader]_vars

-----------------------------------------------------------------------------
(* Streams that end early or hold more than elements: what was returned    *)
(* last (nothing, an opening node, an empty element, a closing node), then *)
(* possibly a comment, then a tail.                                        *)

Space == Ch(" ")
Newline == 10

\* the proper, non-empty prefixes of a token
Truncations(token) == {SubSeq(token, 1, n) : n \in 1..(Len(token) - 1)}

Tokens ==
    { Bytes(<<"<", "b", " ", "c", "=", "\"", "d", "\"", "/", ">">>),
      Bytes(<<"<", "/", "b", ">">>),
      Bytes(<<"<", "!", "-", "-", "c", "-", "-", ">">>),
      Bytes(<<"<", "?", "p", "?", ">">>),
      Bytes(<<"<", "!", "D", " ", "[", "e", "]", ">">>) }

Heads ==
    { <<>>,
      Bytes(<<"<", "a", ">">>),
      Bytes(<<"<", "a", "/", ">">>),
      Bytes(<<"<", "a", ">", "<", "/", "a", ">">>) }

Comments == {<<>>, Bytes(<<"<", "!", "-", "-", "c", "-", "-", ">">>)}

Tails ==
    { <<>>, <<Space>>, <<Space, Newline>>,
      Bytes(<<"x">>), <<Space, Ch("x")>>, Bytes(<<"x", "<", "b", ">">>) }
        \cup UNION {Truncations(t) : t \in Tokens}

\* what the Reader discards, with an '&' inside: comments, a CDATA section,
\* a declaration, a processing instruction
Discarded ==
    { Bytes(<<"<", "!", "-", "-", "&", "a", "m", "p", ";", "-", "-", ">">>),
      Bytes(<<"<", "!", "-", "-", " ", "&", " ", "-", "-", ">">>),
      Bytes(<<"<", "!", "-", "-", "&", "#", "6", "5", ";", "-", "-", ">">>),
      Bytes(<<"<", "!", "[", "C", "D", "A", "T", "A", "[", "&", "l", "t", ";", "]", "]", ">">>),
      Bytes(<<"<", "!", "D", " ", "&", "c", ";", ">">>),
      Bytes(<<"<", "?", "p", " ", "&", "?", ">">>) }

\* <a>, something discarded, x</a>
SkipInputs ==
    {Bytes(<<"<", "a", ">">>) \o d \o Bytes(<<"x", "<", "/", "a", ">">>) : d \in Discarded}

EdgeInputs == {h \o c \o t : h \in Heads, c \in Comments, t \in Tails} \cup SkipInputs

InitEdge ==
    /\ input \in EdgeInputs
    /\ expected = <<>>
    /\ wellFormed = FALSE
    /\ \E s \in Schedules, h \in BOOLEAN :
          /\ rd = NewReader(s, h)
          /\ ref = NewReader(WholeSchedule, h)
    /\ out = <<>>
    /\ refOut = <<>>
    /\ ParserIdle

SpecEdge == InitEdge /\ [][NextReader]_vars

-----------------------------------------------------------------------------
(* The life of a Reader: calls of readNode() and nullTerminate(), on a     *)
(* stream that may break, until the destructor runs.                       *)

\* a destructor that forgets the close callback
ReaderDtorSilent(r) == [r EXCEPT !.alive = FALSE]

\* Reader::~Reader
ReaderDtor(r) == [r EXCEPT !.closed = @ + 1, !.alive = FALSE]

\* a readNode() call on a stream that has broken: from now on the read
\* callback reports an error
ReadNodeBroken ==
    /\ rd.alive
    /\ Active(rd)
    /\ \E gap \in AllocGaps :
          rd' = Call([rd EXCEPT !.readError = TRUE], gap)
    /\ out' = Append(out, Outcome(rd'))
    /\ UNCHANGED <<input, expected, wellFormed, ref, refOut>>
    /\ UNCHANGED parserVars

\* the caller null-terminates a slice of the node it holds
NullTerminate ==
    /\ rd.alive
    /\ Active(rd)
    /\ \E sv \in Slices(rd.returned) : rd' = nullTerminate(rd, sv).r
    /\ UNCHANGED <<input, expected, wellFormed, out, ref, refOut>>
    /\ UNCHANGED parserVars

\* the Reader goes out of scope: after End, after an exception, or before
Destroy ==
    /\ rd.alive
    /\ rd' = ReaderDtor(rd)
    /\ ref' = ReaderDtor(ref)
    /\ UNCHANGED <<input, expected, wellFormed, out, refOut>>
    /\ UNCHANGED parserVars

NextLife == ReadNode \/ ReadNodeBroken \/ NullTerminate \/ Destroy

SpecLife == InitEdge /\ [][NextLife]_vars

-----------------------------------------------------------------------------
(* Properties of the Reader *)

IsPrefix(s, t) == Len(s) <= Len(t) /\ \A i \in DOMAIN s : s[i] = t[i]

\* no step of rd or ref ran into undefined behaviour
Defined == rd.status # "ub" /\ ref.status # "ub"

\* C1: the nodes successive readNode() calls return (type, name, empty flag,
\* attributes in order, text, by content) are the same for every chunk
\* schedule of the read callback: what the chunked Reader returned so far is
\* what the Reader fed everything at once returned.
C1_ChunkScheduleInvisible == Defined => out = refOut

\* C2: every move of the data under a node being built is followed by one
\* shift of the node's slices and of tempAttrName by the same distance, and
\* each slice of the returned node denotes the bytes it denoted when stored.
C2_SlicesShiftedOncePerMove ==
    (rd.status = "ok" /\ rd.returned.type \in {"opening", "closing", "text"}) =>
        /\ rd.shiftLog = rd.moveLog
        /\ NodeContent(rd, rd.returned) = rd.stored

\* C3: on a well-formed document the nodes returned carry, in order, exactly
\* the document's logical content (names, attributes in source order,
\* entity-expanded text), End being returned after the last token.
C3_LogicalContent ==
    (wellFormed /\ Defined) =>
        /\ IsPrefix(out, expected)
        /\ (~Active(rd) => out = expected)

\* C4: after a readNode() call returned an Opening, Closing or Text node,
\* nullTerminate succeeds on every slice of that node.
C4_NullTerminateSucceeds ==
    (rd.status = "ok" /\ rd.returned.type \in {"opening", "closing", "text"}) =>
        \A sv \in Slices(rd.returned) : nullTerminate(rd, sv).r.status = "ok"

\* the documents <a>content</a> whose content holds nothing but plain bytes
\* and predefined references / numeric and unknown references
PredefinedInputs ==
    {TextDoc(c).input : c \in {e \in Contents \cup {ExampleContent} :
                                  Kinds(e) \subseteq {"literal", "space", "predefined"}}}
NumericInputs ==
    {TextDoc(c).input : c \in {e \in Contents :
                                  Kinds(e) \subseteq {"literal", "space", "numeric", "unknown"}}}

\* C5: a text holding predefined references, several of them included, is
\* returned as a Text node with each reference replaced by its character, the
\* bytes around them in order and the slice shortened accordingly.
C5_PredefinedReplaced ==
    (input \in PredefinedInputs /\ Defined) =>
        /\ IsPrefix(out, expected)
        /\ (~Active(rd) => out = expected)

\* C6: a text holding &#N; and &#xH; references and references of unknown
\* name is returned as a Text node with each numeric reference replaced by the
\* UTF-8 bytes of its code point and each unknown reference left byte for byte.
C6_NumericReplacedUnknownKept ==
    (input \in NumericInputs /\ Defined) =>
        /\ IsPrefix(out, expected)
        /\ (~Active(rd) => out = expected)

-----------------------------------------------------------------------------
(* XmlParser.  The nodes its Reader returns are records of the node type,  *)
(* the name as a string, the empty flag, `attrs`: whether the opening tag   *)
(* carries the attributes its tag reads, with ordinary values, and `attr`: *)
(* the attributes whose values matter, a record of strings.                *)

PNode(type, name, empty, attrs) ==
    [type |-> type, name |-> name, empty |-> empty, attrs |-> attrs, attr |-> <<>>,
     sliced |-> TRUE, text |-> <<>>]
POpening(name, empty) == PNode("opening", name, empty, TRUE)
\* an opening node with the attributes `attr`
PElement(name, empty, attr) == [POpening(name, empty) EXCEPT !.attr = attr]
\* an opening node whose name slice the Reader has shifted out of its buffer
\* (the data moved while a character reference of the tag was replaced)
PStray(name, empty) == [POpening(name, empty) EXCEPT !.sliced = FALSE]
PClosing(name) == PNode("closing", name, FALSE, FALSE)
PText == PNode("text", "", FALSE, FALSE)
\* a text node of the content `text`, a sequence of whitespace-separated tokens
PTextOf(text) == [PText EXCEPT !.text = text]
PEnd == PNode("end", "", FALSE, FALSE)

\* size_t(0) - 1: the depth of a closing node on an empty hierarchy
SizeMax == 2147483647

Top(stack) == stack[Len(stack)]
Pop(stack) == SubSeq(stack, 1, Len(stack) - 1)

tagNameToType(name) ==
    CASE name = "MrWriter" -> "MRWRITER"
      [] name = "attachment" -> "ATTACHMENT"
      [] name = "audio" -> "AUDIO"
      [] name = "background" -> "BACKGROUND"
      [] name = "image" -> "IMAGE"
      [] name = "layer" -> "LAYER"
      [] name = "page" -> "PAGE"
      [] name = "preview" -> "PREVIEW"
      [] name = "stroke" -> "STROKE"
      [] name = "teximage" -> "TEXIMAGE"
      [] name = "text" -> "TEXT"
      [] name = "timestamp" -> "TIMESTAMP"
      [] name = "title" -> "TITLE"
      [] name = "xournal" -> "XOURNAL"
      [] OTHER -> "UNKNOWN"

\* The parser's own state while a handler runs; `thrown` is the exception
\* in flight, after which nothing more is done.
ParserState ==
    [hierarchy |-> hierarchy, openNames |-> openNames, events |-> events, args |-> args,
     complete |-> complete, asserts |-> passerts, thrown |-> NoError,
     tempFilename |-> tempFilename, tempTimestamp |-> tempTimestamp,
     pdfFilenameParsed |-> pdfFilenameParsed, pressureBuffer |-> pressureBuffer,
     strokeAttr |-> strokeAttr]

Raise(p, error) == IF p.thrown = NoError THEN [p EXCEPT !.thrown = error] ELSE p
\* a call on the LoadHandler, with the arguments `a`
Call2(p, event, a) ==
    IF p.thrown = NoError
    THEN [p EXCEPT !.events = Append(@, event), !.args = Append(@, a)]
    ELSE p
Emit(p, event) == Call2(p, event, <<>>)
xoj_assert(p, cond) == IF p.thrown = NoError THEN [p EXCEPT !.asserts = @ /\ cond] ELSE p

openTag(p, node) ==
    LET type == tagNameToType(node.name) IN
    [p |-> IF ~node.empty /\ p.thrown = NoError
           THEN [p EXCEPT !.hierarchy = Append(@, type),
                          !.openNames = Append(@, node.name)]
           ELSE p,
     type |-> type]

\* closeTag without the comparison with the last open element
closeTagUnchecked(p, node) ==
    IF p.thrown # NoError THEN p
    ELSE IF p.hierarchy = <<>>
    THEN Raise(p, [what |-> "found closing tag at document root",
                   closing |-> node.name, open |-> ""])
    ELSE [p EXCEPT !.hierarchy = Pop(@), !.openNames = Pop(@)]

closeTag(p, node) ==
    LET type == tagNameToType(node.name) IN
    IF p.thrown # NoError THEN p
    ELSE IF p.hierarchy = <<>>
    THEN Raise(p, [what |-> "found closing tag at document root",
                   closing |-> node.name, open |-> ""])
    ELSE IF Top(p.hierarchy) # type
    THEN Raise(p, [what |-> "closing tag does not correspond to last open element",
                   closing |-> type, open |-> Top(p.hierarchy)])
    ELSE [p EXCEPT !.hierarchy = Pop(@), !.openNames = Pop(@)]

\* reader.nullTerminate(node->getName()), for the warning about the tag
nullTerminateName(p, node) ==
    IF node.sliced THEN p
    ELSE Raise(p, [what |-> "Requested to null-terminate a string view outside the buffer.",
                   closing |-> "", open |-> ""])

\* LoadHandler::finalizeDocument, after which isParsingComplete() holds
finalizeDocument(p) ==
    IF p.thrown = NoError
    THEN [p EXCEPT !.events = Append(@, "finalizeDocument"), !.args = Append(@, <<>>),
                   !.complete = TRUE]
    ELSE p

\* XmlParserHelper::getAttrib: is the attribute there
hasAttrib(attributes, name) == name \in DOMAIN attributes
\* XmlParserHelper::getAttribMandatory<std::string_view>
getAttribMandatory(attributes, name, defaultValue) ==
    IF hasAttrib(attributes, name) THEN attributes[name] ELSE defaultValue
\* operator>> into a size_t, on the values the documents use; -1: the stream failed
ToSize(str) ==
    CASE str = "0" -> 0 [] str = "1" -> 1 [] str = "2" -> 2 [] str = "3" -> 3
      [] str = "5" -> 5 [] str = "7" -> 7 [] str = "500" -> 500 [] OTHER -> -1
\* XmlParserHelper::getAttribMandatory<size_t>
getAttribMandatorySize(attributes, name, defaultValue) ==
    IF hasAttrib(attributes, name) /\ ToSize(attributes[name]) # -1
    THEN ToSize(attributes[name])
    ELSE defaultValue

parseXournalTag(p, node) == Emit(p, "addXournal")
parseMrWriterTag(p, node) == Emit(p, "addMrWriter")
parsePageTag(p, node) == Emit(p, "addPage")
parseAudioTag(p, node) == Emit(p, "addAudioAttachment")
\* parseBgPdf that loads the PDF of every background that names one
parseBgPdfAlways(p, attributes) ==
    LET filename == getAttribMandatory(attributes, "filename", "")
        pageno == getAttribMandatorySize(attributes, "pageno", 1)
        p1 == IF filename # ""
              THEN [Call2(p, "loadBgPdf", <<filename>>) EXCEPT !.pdfFilenameParsed = TRUE]
              ELSE p
    IN Call2(p1, "setBgPdf", <<IF pageno = 0 THEN SizeMax ELSE pageno - 1>>)

parseBgPdf(p, attributes) ==
    LET filename == getAttribMandatory(attributes, "filename", "")
        pageno == getAttribMandatorySize(attributes, "pageno", 1)
        p1 == IF ~p.pdfFilenameParsed /\ filename # ""
              THEN [Call2(p, "loadBgPdf", <<filename>>) EXCEPT !.pdfFilenameParsed = TRUE]
              ELSE p
    IN Call2(p1, "setBgPdf", <<IF pageno = 0 THEN SizeMax ELSE pageno - 1>>)

\* without a type attribute the tag is ignored; "solid" is the ordinary type
parseBackgroundTag(p, node) ==
    LET type == getAttribMandatory(node.attr, "type", "solid") IN
    IF ~node.attrs THEN p
    ELSE CASE type = "solid" -> Emit(p, "setBgSolid")
           [] type = "pixmap" -> Emit(p, "setBgPixmap")
           [] type = "pdf" -> parseBgPdf(p, node.attr)
           [] OTHER -> p
parseLayerTag(p, node) == Emit(p, "addLayer")
parseTimestampTag(p, node) ==
    [p EXCEPT !.tempFilename = getAttribMandatory(node.attr, "fn", ""),
              !.tempTimestamp = getAttribMandatorySize(node.attr, "ts", 0)]

\* g_ascii_strtod on one token, on the values the documents use; -1: no
\* conversion was made (endPtr == itPtr)
g_ascii_strtod(token) ==
    CASE token = "0" -> 0 [] token = "1" -> 1 [] token = "2" -> 2 [] token = "3" -> 3
      [] token = "4" -> 4 [] token = "5" -> 5 [] token = "7" -> 7 [] OTHER -> -1

\* the loop of parseStrokeTag over the pressures: the doubles up to the first
\* token that is none
RECURSIVE parsePressures(_)
parsePressures(tokens) ==
    IF tokens = <<>> \/ g_ascii_strtod(Head(tokens)) = -1 THEN <<>>
    ELSE <<g_ascii_strtod(Head(tokens))>> \o parsePressures(Tail(tokens))

\* the pressures a stroke tag carries: those of "pressures", or what follows
\* the width in "width"
strokePressures(attributes) ==
    LET widthStr == getAttribMandatory(attributes, "width", <<"1">>) IN
    IF hasAttrib(attributes, "pressures") THEN parsePressures(attributes["pressures"])
    ELSE IF widthStr # <<>> /\ g_ascii_strtod(Head(widthStr)) # -1
    THEN parsePressures(Tail(widthStr))
    ELSE <<>>

\* the default width "1" is a literal outside the Reader's buffer; the
\* pressures are appended to the pressure buffer, whatever it holds; the
\* filename handed to addStroke is moved from, which leaves it empty
parseStrokeTag(p, node) ==
    LET own == hasAttrib(node.attr, "fn") /\ node.attr["fn"] # ""
        fn == IF own THEN node.attr["fn"] ELSE p.tempFilename
        ts == IF own THEN getAttribMandatorySize(node.attr, "ts", 0) ELSE p.tempTimestamp
    IN
    IF node.attrs
    THEN IF p.thrown # NoError THEN p
         ELSE [Call2(p, "addStroke", <<fn, ts>>) EXCEPT
                   !.tempFilename = "", !.tempTimestamp = 0,
                   !.pressureBuffer = @ \o strokePressures(node.attr),
                   !.strokeAttr = node.attr]
    ELSE Raise(p, [what |-> "Requested to null-terminate a string view outside the buffer.",
                   closing |-> "", open |-> ""])
parseTextTag(p, node) ==
    LET own == hasAttrib(node.attr, "fn") /\ node.attr["fn"] # ""
        fn == IF own THEN node.attr["fn"] ELSE p.tempFilename
        ts == IF own THEN getAttribMandatorySize(node.attr, "ts", 0) ELSE p.tempTimestamp
    IN [Call2(p, "addText", <<fn, ts>>) EXCEPT !.tempFilename = "", !.tempTimestamp = 0]
parseImageTag(p, node) == Emit(p, "addImage")
parseTexImageTag(p, node) == Emit(p, "addTexImage")
parseAttachmentTag(p, node) ==
    CASE Top(p.hierarchy) = "IMAGE" -> Emit(p, "setImageAttachment")
      [] Top(p.hierarchy) = "TEXIMAGE" -> Emit(p, "setTexImageAttachment")
      [] OTHER -> p
\* the loop of parseStrokeText: the pairs of doubles up to the first pair
\* that cannot be parsed.  When x is no double, y is given the same input
\* and fails in the same way
RECURSIVE parsePoints(_)
parsePoints(tokens) ==
    IF tokens = <<>> THEN <<>>
    ELSE IF g_ascii_strtod(tokens[1]) = -1 THEN <<>>
    ELSE IF Len(tokens) < 2 \/ g_ascii_strtod(tokens[2]) = -1 THEN <<>>
    ELSE <<<<g_ascii_strtod(tokens[1]), g_ascii_strtod(tokens[2])>>>>
             \o parsePoints(SubSeq(tokens, 3, Len(tokens)))

\* the pressure buffer is moved from, which leaves it empty
parseStrokeText(p, node) ==
    IF p.thrown # NoError THEN p
    ELSE [Call2(p, "setStrokePoints", <<parsePoints(node.text), p.pressureBuffer>>)
              EXCEPT !.pressureBuffer = <<>>]
parseTextText(p) == Emit(p, "setTextContents")
parseImageText(p) == Emit(p, "setImageData")
parseTexImageText(p) == Emit(p, "setTexImageData")

\* What a handler leaves: the parser's state and what it returns, the node
\* of reader.readNode() ("read") or of parse(next)
Reads(p) == [p |-> p, next |-> "read"]
Parses(p, processNodeFunction) == [p |-> p, next |-> processNodeFunction]

\* processRootNode without the check of the empty root tag
processRootNodeUnchecked(p0, node) ==
    CASE node.type = "opening" ->
            LET p1 == xoj_assert(p0, p0.hierarchy = <<>>)
                o == openTag(p1, node)
                p3 == CASE o.type = "XOURNAL" -> parseXournalTag(o.p, node)
                        [] o.type = "MRWRITER" -> parseMrWriterTag(o.p, node)
                        [] OTHER -> nullTerminateName(o.p, node)
            IN Parses(p3, "processDocumentChildNode")
      [] node.type = "closing" -> Reads(closeTag(finalizeDocument(p0), node))
      [] OTHER -> Reads(p0)

processRootNode(p0, node) ==
    CASE node.type = "opening" ->
            LET p1 == xoj_assert(p0, p0.hierarchy = <<>>)
                o == openTag(p1, node)
                \* The root tag should not be empty
                p2 == IF node.empty
                      THEN Raise(o.p, [what |-> "the document root tag is empty",
                                       closing |-> "", open |-> ""])
                      ELSE o.p
                p3 == CASE o.type = "XOURNAL" -> parseXournalTag(p2, node)
                        [] o.type = "MRWRITER" -> parseMrWriterTag(p2, node)
                        [] OTHER -> nullTerminateName(p2, node)
            IN Parses(p3, "processDocumentChildNode")
      [] node.type = "closing" -> Reads(closeTag(finalizeDocument(p0), node))
      [] OTHER -> Reads(p0)

processDocumentChildNode(p0, node) ==
    LET pa == xoj_assert(p0, p0.hierarchy # <<>>) IN
    CASE node.type = "opening" ->
            LET p1 == xoj_assert(pa, Top(pa.hierarchy) \in {"XOURNAL", "MRWRITER", "UNKNOWN"})
                o == openTag(p1, node)
            IN CASE o.type = "PAGE" ->
                       LET p2 == parsePageTag(o.p, node) IN
                       IF node.empty THEN Reads(Emit(p2, "finalizePage"))
                       ELSE Parses(p2, "processPageChildNode")
                 [] o.type = "AUDIO" -> Reads(parseAudioTag(o.p, node))
                 [] OTHER -> Reads(nullTerminateName(o.p, node))
      [] node.type = "closing" ->
            Reads(closeTag(IF Top(pa.hierarchy) = "PAGE" THEN Emit(pa, "finalizePage")
                           ELSE pa, node))
      [] OTHER -> Reads(pa)

\* processPageChildNode without the finalizeLayer() of a closing node
processPageChildNodeUnfinalized(p0, node) ==
    LET pa == xoj_assert(p0, p0.hierarchy # <<>>) IN
    CASE node.type = "opening" ->
            LET p1 == xoj_assert(pa, Top(pa.hierarchy) \in {"PAGE", "UNKNOWN"})
                o == openTag(p1, node)
            IN CASE o.type = "BACKGROUND" -> Reads(parseBackgroundTag(o.p, node))
                 [] o.type = "LAYER" ->
                       LET p2 == parseLayerTag(o.p, node) IN
                       IF node.empty THEN Reads(Emit(p2, "finalizeLayer"))
                       ELSE Parses(p2, "processLayerChildNode")
                 [] OTHER -> Reads(nullTerminateName(o.p, node))
      [] node.type = "closing" ->
            Reads(closeTag(pa, node))
      [] OTHER -> Reads(pa)

processPageChildNode(p0, node) ==
    LET pa == xoj_assert(p0, p0.hierarchy # <<>>) IN
    CASE node.type = "opening" ->
            LET p1 == xoj_assert(pa, Top(pa.hierarchy) \in {"PAGE", "UNKNOWN"})
                o == openTag(p1, node)
            IN CASE o.type = "BACKGROUND" -> Reads(parseBackgroundTag(o.p, node))
                 [] o.type = "LAYER" ->
                       LET p2 == parseLayerTag(o.p, node) IN
                       IF node.empty THEN Reads(Emit(p2, "finalizeLayer"))
                       ELSE Parses(p2, "processLayerChildNode")
                 [] OTHER -> Reads(nullTerminateName(o.p, node))
      [] node.type = "closing" ->
            Reads(closeTag(IF Top(pa.hierarchy) = "LAYER" THEN Emit(pa, "finalizeLayer")
                           ELSE pa, node))
      [] OTHER -> Reads(pa)

processLayerChildNode(p0, node) ==
    LET pa == xoj_assert(p0, p0.hierarchy # <<>>)
        top == Top(pa.hierarchy)
    IN
    CASE node.type = "opening" ->
            LET p1 == xoj_assert(pa, top \in {"LAYER", "UNKNOWN"})
                o == openTag(p1, node)
            IN CASE o.type = "TIMESTAMP" -> Reads(parseTimestampTag(o.p, node))
                 [] o.type = "STROKE" ->
                       LET p2 == parseStrokeTag(o.p, node) IN
                       Reads(IF node.empty THEN Emit(p2, "finalizeStroke") ELSE p2)
                 [] o.type = "TEXT" ->
                       LET p2 == parseTextTag(o.p, node) IN
                       Reads(IF node.empty THEN Emit(p2, "finalizeText") ELSE p2)
                 [] o.type = "IMAGE" ->
                       LET p2 == parseImageTag(o.p, node) IN
                       IF node.empty THEN Reads(Emit(p2, "finalizeImage"))
                       ELSE Parses(p2, "processAttachment")
                 [] o.type = "TEXIMAGE" ->
                       \* no break after the empty TEX image: parse() is called either way
                       LET p2 == parseTexImageTag(o.p, node) IN
                       Parses(IF node.empty THEN Emit(p2, "finalizeTexImage") ELSE p2,
                              "processAttachment")
                 [] OTHER -> Reads(nullTerminateName(o.p, node))
      [] node.type = "text" ->
            Reads(CASE top = "STROKE" -> parseStrokeText(pa, node)
                    [] top = "TEXT" -> parseTextText(pa)
                    [] top = "IMAGE" -> parseImageText(pa)
                    [] top = "TEXIMAGE" -> parseTexImageText(pa)
                    [] OTHER -> pa)
      [] node.type = "closing" ->
            Reads(closeTag(CASE top = "STROKE" -> Emit(pa, "finalizeStroke")
                             [] top = "TEXT" -> Emit(pa, "finalizeText")
                             [] top = "IMAGE" -> Emit(pa, "finalizeImage")
                             [] top = "TEXIMAGE" -> Emit(pa, "finalizeTexImage")
                             [] OTHER -> pa, node))
      [] OTHER -> Reads(pa)

processAttachment(p0, node) ==
    LET pa == xoj_assert(p0, p0.hierarchy # <<>>) IN
    CASE node.type = "opening" ->
            LET p1 == xoj_assert(pa, Top(pa.hierarchy) \in {"IMAGE", "TEXIMAGE", "UNKNOWN"})
                o == openTag(p1, node)
            IN Reads(IF o.type = "ATTACHMENT" THEN parseAttachmentTag(o.p, node)
                     ELSE nullTerminateName(o.p, node))
      [] node.type = "closing" -> Reads(closeTag(pa, node))
      [] OTHER -> Reads(pa)

-----------------------------------------------------------------------------
(* The node streams of the parser's Reader: a context of opening tags, then *)
(* up to MaxFree nodes of any kind, then either the end of the data or the  *)
(* closing tags of what is open and the end.                                *)

MaxFree == 3
ReaderError == PNode("error", "", FALSE, FALSE)

Contexts ==
    { <<>>,
      <<POpening("xournal", FALSE)>>,
      <<POpening("MrWriter", FALSE), POpening("page", FALSE)>>,
      <<POpening("xournal", FALSE), POpening("page", FALSE), POpening("layer", FALSE)>>,
      <<POpening("xournal", FALSE), POpening("page", FALSE), POpening("layer", FALSE),
        POpening("stroke", FALSE)>>,
      <<POpening("xournal", FALSE), POpening("page", FALSE), POpening("layer", FALSE),
        POpening("image", FALSE)>>,
      <<POpening("xournal", FALSE), POpening("page", FALSE), POpening("layer", FALSE),
        POpening("teximage", TRUE)>>,
      <<POpening("foo", FALSE), POpening("page", FALSE), POpening("layer", FALSE),
        POpening("text", FALSE)>> }

TagNames ==
    {"xournal", "title", "page", "audio", "background", "layer", "timestamp", "stroke",
     "text", "image", "teximage", "attachment", "foo"}

\* a width attribute of a width, one pressure and what no longer parses
StrokeWidth == <<"2", "5", "x", "7">>
\* text of a stroke: a pair and a half, and two pairs about a malformed token
StrokeTexts == {<<"1", "2", "3">>, <<"3", "4", "x", "1", "2">>}

\* the nodes the Reader may return next, `names` being the open elements
FreeNodes(names) ==
    {POpening(n, e) : n \in TagNames, e \in BOOLEAN}
        \cup {PNode("opening", "stroke", e, FALSE) : e \in BOOLEAN}
        \cup {PStray("foo", e) : e \in BOOLEAN}
        \cup {PElement("stroke", e, [width |-> StrokeWidth]) : e \in BOOLEAN}
        \cup {PClosing(n) : n \in {"page", "foo", "bar"}}
        \cup (IF names # <<>> THEN {PClosing(Top(names))} ELSE {})
        \cup (IF stream.lastOpening THEN {PText} \cup {PTextOf(t) : t \in StrokeTexts}
              ELSE {})
        \cup {PEnd, ReaderError}

After1(node) ==
    [stream EXCEPT !.delivered = @ + 1,
                   !.lastOpening = (node.type = "opening"),
                   !.ended = (node.type \in {"end", "error"})]

\* readNode() that returns the node it returned last and consumes nothing
readNodeIdle(names) == {[node |-> bnode, stream |-> stream]}

\* reader.readNode(): the nodes it may return and the stream each leaves
readNodeOutcomes(names) ==
    IF stream.ended THEN {[node |-> PEnd, stream |-> stream]}
    ELSE IF stream.pending # <<>>
    THEN {[node |-> Head(stream.pending),
           stream |-> [After1(Head(stream.pending)) EXCEPT !.pending = Tail(@)]]}
    ELSE IF stream.free > 0
    THEN {[node |-> n, stream |-> [After1(n) EXCEPT !.free = @ - 1]] :
              n \in FreeNodes(names)}
    ELSE IF stream.closeAll /\ names # <<>>
    THEN {[node |-> PClosing(Top(names)), stream |-> After1(PClosing(Top(names)))]}
    ELSE {[node |-> PEnd, stream |-> After1(PEnd)]}

-----------------------------------------------------------------------------
(* Documents of valid structure: a root, pages of a background and layers, *)
(* layers of timestamp, stroke, text and image elements.  With each comes  *)
(* the sequence of LoadHandler calls the file format prescribes for it.    *)

MaxPages == 3
MaxElements == 3

\* body: "empty" (<e/>), "none" (<e></e>), "text" (<e>text</e>) or
\* "attachment" (<e><attachment/></e>)
Element(kind, attr, body) == [kind |-> kind, attr |-> attr, body |-> body]
Layer(empty, elements) == [empty |-> empty, elements |-> elements]
Page(bg, layers) == [bg |-> bg, layers |-> layers]

ElementNodes(e) ==
    CASE e.body = "empty" -> <<PElement(e.kind, TRUE, e.attr)>>
      [] e.body = "none" -> <<PElement(e.kind, FALSE, e.attr), PClosing(e.kind)>>
      [] e.body = "text" -> <<PElement(e.kind, FALSE, e.attr), PText, PClosing(e.kind)>>
      [] e.body = "attachment" ->
            <<PElement(e.kind, FALSE, e.attr), PElement("attachment", TRUE, [path |-> "p"]),
              PClosing(e.kind)>>

RECURSIVE Flatten(_)
Flatten(seqs) == IF seqs = <<>> THEN <<>> ELSE Head(seqs) \o Flatten(Tail(seqs))

LayerNodes(l) ==
    IF l.empty THEN <<POpening("layer", TRUE)>>
    ELSE <<POpening("layer", FALSE)>>
             \o Flatten([i \in DOMAIN l.elements |-> ElementNodes(l.elements[i])])
             \o <<PClosing("layer")>>

PageNodes(pg) ==
    <<POpening("page", FALSE), PElement("background", TRUE, pg.bg)>>
        \o Flatten([i \in DOMAIN pg.layers |-> LayerNodes(pg.layers[i])])
        \o <<PClosing("page")>>

DocNodes(d) ==
    <<POpening(d.root, FALSE)>>
        \o Flatten([i \in DOMAIN d.pages |-> PageNodes(d.pages[i])])
        \o <<PClosing(d.root)>>

\* The calls prescribed for an element; st is what precedes it: the pending
\* pair of a timestamp element and whether a PDF has been loaded
ExpectedElement(e, st) ==
    LET own == "fn" \in DOMAIN e.attr /\ e.attr["fn"] # ""
        pair == IF own THEN <<e.attr["fn"], ToSize(e.attr["ts"])>> ELSE <<st.fn, st.ts>>
        payload == CASE e.body = "text" /\ e.kind = "stroke" ->
                            <<<<"setStrokePoints", <<<<>>, <<>>>>>>>>
                     [] e.body = "text" /\ e.kind = "text" -> <<<<"setTextContents", <<>>>>>>
                     [] e.body = "text" /\ e.kind = "image" -> <<<<"setImageData", <<>>>>>>
                     [] e.body = "text" /\ e.kind = "teximage" -> <<<<"setTexImageData", <<>>>>>>
                     [] e.body = "attachment" -> <<<<"setImageAttachment", <<>>>>>>
                     [] OTHER -> <<>>
    IN CASE e.kind = "timestamp" ->
                [calls |-> <<>>,
                 st |-> [st EXCEPT !.fn = e.attr["fn"], !.ts = ToSize(e.attr["ts"])]]
         [] e.kind = "stroke" ->
                [calls |-> <<<<"addStroke", pair>>>> \o payload \o <<<<"finalizeStroke", <<>>>>>>,
                 st |-> [st EXCEPT !.fn = "", !.ts = 0]]
         [] e.kind = "text" ->
                [calls |-> <<<<"addText", pair>>>> \o payload \o <<<<"finalizeText", <<>>>>>>,
                 st |-> [st EXCEPT !.fn = "", !.ts = 0]]
         [] e.kind = "image" ->
                [calls |-> <<<<"addImage", <<>>>>>> \o payload \o <<<<"finalizeImage", <<>>>>>>,
                 st |-> st]
         [] e.kind = "teximage" ->
                [calls |-> <<<<"addTexImage", <<>>>>>> \o payload
                               \o <<<<"finalizeTexImage", <<>>>>>>,
                 st |-> st]

RECURSIVE ExpectedElements(_, _)
ExpectedElements(elements, st) ==
    IF elements = <<>> THEN [calls |-> <<>>, st |-> st]
    ELSE With([h \in {ExpectedElement(Head(elements), st)} |->
         With([t \in {ExpectedElements(Tail(elements), h.st)} |->
             [calls |-> h.calls \o t.calls, st |-> t.st]])])

RECURSIVE ExpectedLayers(_, _)
ExpectedLayers(layers, st) ==
    IF layers = <<>> THEN [calls |-> <<>>, st |-> st]
    ELSE With([h \in {ExpectedElements(Head(layers).elements, st)} |->
         With([t \in {ExpectedLayers(Tail(layers), h.st)} |->
             [calls |-> <<<<"addLayer", <<>>>>>> \o h.calls \o <<<<"finalizeLayer", <<>>>>>>
                            \o t.calls,
              st |-> t.st]])])

\* the background event(s) of a page
ExpectedBackground(bg, st) ==
    CASE bg["type"] = "solid" -> [calls |-> <<<<"setBgSolid", <<>>>>>>, st |-> st]
      [] bg["type"] = "pixmap" -> [calls |-> <<<<"setBgPixmap", <<>>>>>>, st |-> st]
      [] bg["type"] = "pdf" ->
            LET named == "filename" \in DOMAIN bg /\ bg["filename"] # ""
                pageno == IF "pageno" \in DOMAIN bg THEN ToSize(bg["pageno"]) ELSE 1
            IN [calls |-> (IF named /\ ~st.loaded
                           THEN <<<<"loadBgPdf", <<bg["filename"]>>>>>> ELSE <<>>)
                              \o <<<<"setBgPdf", <<pageno - 1>>>>>>,
                st |-> [st EXCEPT !.loaded = @ \/ named]]

RECURSIVE ExpectedPages(_, _)
ExpectedPages(pages, st) ==
    IF pages = <<>> THEN <<>>
    ELSE With([b \in {ExpectedBackground(Head(pages).bg, st)} |->
         With([l \in {ExpectedLayers(Head(pages).layers, b.st)} |->
             <<<<"addPage", <<>>>>>> \o b.calls \o l.calls \o <<<<"finalizePage", <<>>>>>>
                 \o ExpectedPages(Tail(pages), l.st)])])

ExpectedCalls(d) ==
    <<<<IF d.root = "xournal" THEN "addXournal" ELSE "addMrWriter", <<>>>>>>
        \o ExpectedPages(d.pages, [fn |-> "", ts |-> 0, loaded |-> FALSE])
        \o <<<<"finalizeDocument", <<>>>>>>

SeqsUpTo(S, n) == UNION {[1..k -> S] : k \in 1..n}

Solid == [type |-> "solid"]
Points == Element("stroke", <<>>, "text")

\* pages of each background kind, of empty and of filled layers, of every element
StructurePages ==
    { Page(Solid, <<Layer(TRUE, <<>>)>>),
      Page(Solid, <<Layer(FALSE, <<Points, Element("text", <<>>, "text")>>)>>),
      Page([type |-> "pixmap"],
           <<Layer(FALSE, <<Element("image", <<>>, "text"),
                            Element("teximage", <<>>, "text")>>), Layer(FALSE, <<>>)>>),
      Page(Solid, <<Layer(FALSE, <<Element("image", <<>>, "attachment"),
                                   Element("stroke", <<>>, "empty")>>)>>) }

\* pages of a PDF background: with a filename, with an empty one, with none
PdfPages ==
    { Page(bg, <<Layer(TRUE, <<>>)>>) :
          bg \in { [type |-> "pdf", filename |-> "doc.pdf", pageno |-> "1"],
                   [type |-> "pdf", filename |-> "e.pdf", pageno |-> "2"],
                   [type |-> "pdf", filename |-> "", pageno |-> "5"],
                   [type |-> "pdf", pageno |-> "3"],
                   Solid } }

\* timestamp elements and the strokes and texts with and without an fn of their own
AudioElements ==
    { Element("timestamp", [fn |-> "a.mp3", ts |-> "500"], "empty"),
      Element("timestamp", [fn |-> "b.mp3", ts |-> "7"], "empty"),
      Points,
      Element("stroke", [fn |-> "s.mp3", ts |-> "5"], "empty"),
      Element("stroke", [fn |-> "", ts |-> "3"], "none"),
      Element("text", <<>>, "empty"),
      Element("text", [fn |-> "t.mp3", ts |-> "2"], "text") }

Documents ==
    {[root |-> r, pages |-> ps] : r \in {"xournal", "MrWriter"},
                                  ps \in SeqsUpTo(StructurePages, MaxPages)}
        \cup {[root |-> "xournal", pages |-> ps] : ps \in SeqsUpTo(PdfPages, MaxPages)}
        \cup {[root |-> "xournal", pages |-> <<Page(Solid, <<Layer(FALSE, es)>>)>>] :
                  es \in SeqsUpTo(AudioElements, MaxElements)}

-----------------------------------------------------------------------------
(* parse(): one frame per active call *)

Frame(processNodeFunction) ==
    [proc |-> processNodeFunction, startDepth |-> 0, entered |-> FALSE]

InitParser ==
    /\ input = <<>>
    /\ rd = NewReader(WholeSchedule, FALSE) /\ ref = NewReader(WholeSchedule, FALSE)
    /\ out = <<>> /\ refOut = <<>>
    /\ hierarchy = <<>> /\ openNames = <<>>
    /\ frames = <<Frame("processRootNode")>>
    /\ bnode = PEnd
    /\ events = <<>>
    /\ args = <<>> /\ tempFilename = "" /\ tempTimestamp = 0 /\ pdfFilenameParsed = FALSE
    /\ pressureBuffer = <<>> /\ strokeAttr = <<>>
    /\ pstatus = "running"
    /\ perror = NoError
    /\ \/ /\ \E c \in Contexts, f \in 0..MaxFree, a \in BOOLEAN :
                stream = [pending |-> c, free |-> f, closeAll |-> a, lastOpening |-> FALSE,
                          ended |-> FALSE, delivered |-> 0]
          /\ wellFormed = FALSE
          /\ expected = <<>>
       \/ \E d \in Documents :
             /\ stream = [pending |-> DocNodes(d), free |-> 0, closeAll |-> FALSE,
                          lastOpening |-> FALSE, ended |-> FALSE, delivered |-> 0]
             /\ wellFormed = TRUE
             /\ expected = ExpectedCalls(d)
    /\ complete = FALSE
    /\ passerts = TRUE

Running == pstatus = "running" /\ frames # <<>>
TopFrame == frames[Len(frames)]

\* the depth parse() computes for bnode
Depth ==
    IF bnode.type = "closing"
    THEN IF Len(hierarchy) = 0 THEN SizeMax ELSE Len(hierarchy) - 1
    ELSE Len(hierarchy)

\* parse() is about to pass bnode to processNodeFunction
Dispatching ==
    /\ Running /\ TopFrame.entered
    /\ bnode.type # "end" /\ Depth >= TopFrame.startDepth

\* parse() returns bnode to its caller
Return(node) ==
    /\ frames' = Pop(frames)
    /\ bnode' = node
    /\ pstatus' = IF Len(frames) = 1 THEN "returned" ELSE "running"

\* an exception leaves parse()
Fail(error) ==
    /\ pstatus' = "failed"
    /\ perror' = error
    /\ UNCHANGED <<frames, bnode>>

\* parse() that takes whatever node comes first into its loop
ParseEnterAny ==
    /\ Running /\ ~TopFrame.entered
    /\ \E o \in readNodeOutcomes(openNames) :
          /\ stream' = o.stream
          /\ IF o.node.type = "error"
             THEN Fail([what |-> "reader", closing |-> "", open |-> ""])
             ELSE /\ perror' = perror
                  /\ frames' = [frames EXCEPT ![Len(frames)] =
                                    [@ EXCEPT !.entered = TRUE,
                                              !.startDepth = Len(hierarchy)]]
                  /\ bnode' = o.node
                  /\ pstatus' = pstatus
    /\ UNCHANGED <<hierarchy, openNames, events, complete, passerts>>
    /\ UNCHANGED <<args, tempFilename, tempTimestamp, pdfFilenameParsed, pressureBuffer,
                   strokeAttr>>
    /\ UNCHANGED readerVars

\* parse() up to its loop: the first node is read
ParseEnter ==
    /\ Running /\ ~TopFrame.entered
    /\ \E o \in readNodeOutcomes(openNames) :
          /\ stream' = o.stream
          /\ IF o.node.type = "error"
             THEN Fail([what |-> "reader", closing |-> "", open |-> ""])
             ELSE /\ perror' = perror
                  /\ IF o.node.type # "opening"
                     THEN Return(o.node)
                     ELSE /\ frames' = [frames EXCEPT ![Len(frames)] =
                                            [@ EXCEPT !.entered = TRUE,
                                                      !.startDepth = Len(hierarchy)]]
                          /\ bnode' = o.node
                          /\ pstatus' = pstatus
    /\ UNCHANGED <<hierarchy, openNames, events, complete, passerts>>
    /\ UNCHANGED <<args, tempFilename, tempTimestamp, pdfFilenameParsed, pressureBuffer,
                   strokeAttr>>
    /\ UNCHANGED readerVars

\* parse() leaves its loop: End, or a node above the depth it started at
ParseReturn ==
    /\ Running /\ TopFrame.entered
    /\ bnode.type = "end" \/ Depth < TopFrame.startDepth
    /\ Return(bnode)
    /\ UNCHANGED <<hierarchy, openNames, events, complete, passerts, perror, stream>>
    /\ UNCHANGED <<args, tempFilename, tempTimestamp, pdfFilenameParsed, pressureBuffer,
                   strokeAttr>>
    /\ UNCHANGED readerVars

\* one turn of parse()'s loop: processNodeFunction(this, bnode)
Process(processNodeFunction, h) ==
    /\ Dispatching
    /\ TopFrame.proc = processNodeFunction
    /\ hierarchy' = h.p.hierarchy
    /\ openNames' = h.p.openNames
    /\ events' = h.p.events
    /\ complete' = h.p.complete
    /\ passerts' = h.p.asserts
    /\ args' = h.p.args
    /\ tempFilename' = h.p.tempFilename
    /\ tempTimestamp' = h.p.tempTimestamp
    /\ pdfFilenameParsed' = h.p.pdfFilenameParsed
    /\ pressureBuffer' = h.p.pressureBuffer
    /\ strokeAttr' = h.p.strokeAttr
    /\ IF h.p.thrown # NoError
       THEN Fail(h.p.thrown) /\ stream' = stream
       ELSE IF h.next = "read"
       THEN \E o \in readNodeOutcomes(h.p.openNames) :
               /\ stream' = o.stream
               /\ IF o.node.type = "error"
                  THEN Fail([what |-> "reader", closing |-> "", open |-> ""])
                  ELSE bnode' = o.node /\ UNCHANGED <<frames, pstatus, perror>>
       ELSE /\ frames' = Append(frames, Frame(h.next))
            /\ UNCHANGED <<bnode, pstatus, perror, stream>>
    /\ UNCHANGED readerVars

ProcessRootNode == Process("processRootNode", processRootNode(ParserState, bnode))
ProcessDocumentChildNode ==
    Process("processDocumentChildNode", processDocumentChildNode(ParserState, bnode))
ProcessPageChildNode ==
    Process("processPageChildNode", processPageChildNode(ParserState, bnode))
ProcessLayerChildNode ==
    Process("processLayerChildNode", processLayerChildNode(ParserState, bnode))
ProcessAttachment == Process("processAttachment", processAttachment(ParserState, bnode))

NextParser ==
    \/ ParseEnter
    \/ ParseReturn
    \/ ProcessRootNode
    \/ ProcessDocumentChildNode
    \/ ProcessPageChildNode
    \/ ProcessLayerChildNode
    \/ ProcessAttachment

SpecParser == InitParser /\ [][NextParser]_vars

-----------------------------------------------------------------------------
(* Properties of the parser *)

MismatchError == "closing tag does not correspond to last open element"
RootEmptyError == "the document root tag is empty"

\* C7: the hierarchy shrinks only in a step that processes a closing node
\* whose kind is the top of the stack, and then by exactly that top; a
\* closing node whose kind differs from the top makes parse() fail with an
\* error naming the closing kind and the open kind, the stack unchanged.
C7_PopOnlyByMatchingClose ==
    [][ /\ (Len(hierarchy') < Len(hierarchy)) =>
               /\ Dispatching /\ bnode.type = "closing"
               /\ tagNameToType(bnode.name) = Top(hierarchy)
               /\ hierarchy' = Pop(hierarchy)
        /\ (Dispatching /\ bnode.type = "closing" /\ hierarchy # <<>>) =>
               IF tagNameToType(bnode.name) = Top(hierarchy)
               THEN hierarchy' = Pop(hierarchy)
               ELSE /\ pstatus' = "failed"
                    /\ perror' = [what |-> MismatchError,
                                  closing |-> tagNameToType(bnode.name),
                                  open |-> Top(hierarchy)]
                    /\ hierarchy' = hierarchy ]_vars

\* a closing </page> met the open layer and parse() failed
C7_Witness ==
    /\ pstatus = "failed"
    /\ perror = [what |-> MismatchError, closing |-> "PAGE", open |-> "LAYER"]
    /\ Top(hierarchy) = "LAYER"

\* C8: a closing node whose name is not the name of the element opened last
\* and still open makes closeTag throw, whatever the two names are.
C8_CloseOfAnotherNameThrows ==
    [][ (Dispatching /\ bnode.type = "closing" /\ openNames # <<>>
            /\ bnode.name # Top(openNames)) => pstatus' = "failed" ]_vars

Count(seq, e) == Cardinality({i \in DOMAIN seq : seq[i] = e})

\* the finalize event of the elements a handler builds
FinalizeOf(processNodeFunction, name) ==
    CASE processNodeFunction = "processDocumentChildNode" /\ name = "page" -> "finalizePage"
      [] processNodeFunction = "processPageChildNode" /\ name = "layer" -> "finalizeLayer"
      [] processNodeFunction = "processLayerChildNode" /\ name = "stroke" -> "finalizeStroke"
      [] processNodeFunction = "processLayerChildNode" /\ name = "text" -> "finalizeText"
      [] processNodeFunction = "processLayerChildNode" /\ name = "image" -> "finalizeImage"
      [] processNodeFunction = "processLayerChildNode" /\ name = "teximage" ->
            "finalizeTexImage"
      [] OTHER -> ""

\* C9: the step that processes an empty opening node leaves the hierarchy as
\* it was, and when the node is a page, layer, stroke, text, image or
\* teximage given to the handler of its level, that step issues the
\* element's finalize event exactly once.
C9_EmptyElementFinalizedOnce ==
    [][ (Dispatching /\ bnode.type = "opening" /\ bnode.empty) =>
            /\ hierarchy' = hierarchy
            /\ FinalizeOf(TopFrame.proc, bnode.name) # "" =>
                  Count(events', FinalizeOf(TopFrame.proc, bnode.name))
                      = Count(events, FinalizeOf(TopFrame.proc, bnode.name)) + 1 ]_vars

\* C10: when the first node of the document is an empty opening node, the
\* step that processes it makes parse() fail with "the document root tag is
\* empty", no LoadHandler call made and the hierarchy empty.
C10_EmptyRootRejected ==
    [][ (Dispatching /\ stream.delivered = 1 /\ bnode.type = "opening" /\ bnode.empty) =>
            /\ events = <<>> /\ hierarchy = <<>>
            /\ pstatus' = "failed"
            /\ perror'.what = RootEmptyError
            /\ events' = <<>>
            /\ hierarchy' = <<>> ]_vars

\* parse() has failed on an empty root tag
C10_Witness ==
    /\ pstatus = "failed"
    /\ perror.what = RootEmptyError
    /\ stream.delivered = 1 /\ bnode.type = "opening" /\ bnode.empty
    /\ events = <<>> /\ hierarchy = <<>>

\* the stroke, text, image and teximage elements: the LoadHandler call that
\* adds one, the calls that give it its payload and the call that ends it
ElementEvents ==
    { [add |-> "addStroke", payload |-> {"setStrokePoints"}, finalize |-> "finalizeStroke"],
      [add |-> "addText", payload |-> {"setTextContents"}, finalize |-> "finalizeText"],
      [add |-> "addImage", payload |-> {"setImageData", "setImageAttachment"},
       finalize |-> "finalizeImage"],
      [add |-> "addTexImage", payload |-> {"setTexImageData", "setTexImageAttachment"},
       finalize |-> "finalizeTexImage"] }

\* C11: as long as no assertion of the parser has failed, every payload and
\* every finalize event of a stroke, text, image or teximage comes after an
\* add event of that kind of element which no finalize event has ended yet:
\* none is issued for an element before that element's add event.
C11_AddBeforePayloadAndFinalize ==
    passerts =>
        \A k \in ElementEvents : \A i \in DOMAIN events :
            events[i] \in k.payload \cup {k.finalize} =>
                Count(SubSeq(events, 1, i), k.add) > Count(SubSeq(events, 1, i - 1), k.finalize)

\* the calls made on the LoadHandler, each with its arguments
Calls == [i \in DOMAIN events |-> <<events[i], args[i]>>]

OwnPair(node) == <<node.attr["fn"], getAttribMandatorySize(node.attr, "ts", 0)>>
HasOwnFn(node) == hasAttrib(node.attr, "fn") /\ node.attr["fn"] # ""

\* the node to process is a child of a layer of a page of the root element,
\* and the parse() call made for the children of that layer is running
InLayer ==
    /\ hierarchy \in {<<"XOURNAL", "PAGE", "LAYER">>, <<"MRWRITER", "PAGE", "LAYER">>}
    /\ Len(frames) >= 4 /\ frames[4].proc = "processLayerChildNode"

\* C13: as long as no assertion of the parser has failed, a timestamp
\* element that is the child of a layer stores its (fn, ts) pair; a stroke or
\* text element that is the child of a layer and has its mandatory
\* attributes is added with its own (fn, ts) when its fn is not empty and
\* with the stored pair otherwise, and either way the stored pair is ("", 0)
\* afterwards.
C13_AudioAttribution ==
    [][ (passerts /\ Dispatching /\ bnode.type = "opening" /\ bnode.attrs /\ InLayer) =>
            /\ bnode.name = "timestamp" =>
                  /\ tempFilename' = getAttribMandatory(bnode.attr, "fn", "")
                  /\ tempTimestamp' = getAttribMandatorySize(bnode.attr, "ts", 0)
            /\ bnode.name \in {"stroke", "text"} =>
                  /\ Len(events') > Len(events)
                  /\ events'[Len(events) + 1] =
                        (IF bnode.name = "stroke" THEN "addStroke" ELSE "addText")
                  /\ args'[Len(events) + 1] =
                        (IF HasOwnFn(bnode) THEN OwnPair(bnode)
                         ELSE <<tempFilename, tempTimestamp>>)
                  /\ tempFilename' = "" /\ tempTimestamp' = 0 ]_vars

\* the page handler is about to process a background element of type pdf
PdfBackground ==
    /\ Dispatching /\ TopFrame.proc = "processPageChildNode"
    /\ bnode.type = "opening" /\ bnode.name = "background" /\ bnode.attrs
    /\ getAttribMandatory(bnode.attr, "type", "solid") = "pdf"

-----------------------------------------------------------------------------
(* Properties of the Reader at the end of the data and between elements *)

\* the bytes of the stream the Reader has not consumed yet
Rest(r) == SubSeq(input, r.inPos - (r.dataEnd - r.currentPos) + 1, Len(input))

RECURSIVE TrimLeft(_)
TrimLeft(bytes) ==
    IF bytes # <<>> /\ isspace(Head(bytes)) THEN TrimLeft(Tail(bytes)) ELSE bytes

\* this step is a readNode() call on rd
ReadNodeCalled == Active(rd) /\ Len(out') = Len(out) + 1

\* C16: readNode() never returns a Text node of nothing but whitespace, and
\* a readNode() call made when only whitespace (or nothing) is left before
\* the end of the data returns End, whatever it returned before.
C16_EndAfterTrailingWhitespace ==
    [][ (ReadNodeCalled /\ rd'.status # "ub") =>
            /\ (rd'.status = "ok" /\ rd'.returned.type = "text") =>
                  ~IsBlank(NodeContent(rd', rd'.returned).text)
            /\ IsBlank(Rest(rd)) => (rd'.status = "ok" /\ rd'.returned.type = "end") ]_vars

UnexpectedCharacter == "Unexpected character found outside node."

\* C17: a readNode() call made when the node returned last is not an
\* opening node and the first byte left after whitespace is not '<' fails
\* with the "unexpected character" error, and a Text node is returned only
\* by the call that follows the return of an opening node.
C17_TextOnlyAfterOpening ==
    [][ (ReadNodeCalled /\ rd'.status # "ub") =>
            /\ (rd.returned.type # "opening" /\ TrimLeft(Rest(rd)) # <<>>
                   /\ Head(TrimLeft(Rest(rd))) # Ch("<")) =>
                  (rd'.status = "failed" /\ rd'.error = UnexpectedCharacter)
            /\ (rd'.status = "ok" /\ rd'.returned.type = "text") =>
                  rd.returned.type = "opening" ]_vars

\* the bytes left once whitespace and the whole comments before them are skipped
RECURSIVE SkipIgnored(_)
SkipIgnored(bytes) ==
    LET t == TrimLeft(bytes)
        comment == Bytes(<<"<", "!", "-", "-", "c", "-", "-", ">">>)
    IN IF Len(t) >= Len(comment) /\ SubSeq(t, 1, Len(comment)) = comment
       THEN SkipIgnored(SubSeq(t, Len(comment) + 1, Len(t)))
       ELSE t

\* the stream ends inside the token that comes next: a '<' and no '>' after it
EndsInsideToken(bytes) ==
    /\ bytes # <<>> /\ Head(bytes) = Ch("<")
    /\ \A i \in DOMAIN bytes : bytes[i] # Ch(">")

\* C18: a readNode() call that finds the stream ending inside the next
\* token (after its '<' and before its '>') fails; it returns no node.
C18_TruncatedTokenFails ==
    [][ (ReadNodeCalled /\ rd'.status # "ub" /\ EndsInsideToken(SkipIgnored(Rest(rd)))) =>
            rd'.status = "failed" ]_vars

\* C15: the close callback is invoked exactly once in the life of a Reader,
\* by its destructor: while the Reader lives (whatever readNode() and
\* nullTerminate() did: End, a read error, a failed call) it has not been
\* invoked, and once the Reader is destroyed it has been invoked once.
C15_ClosedOnceAtDestruction ==
    /\ rd.closed = (IF rd.alive THEN 0 ELSE 1)
    /\ ref.closed = (IF ref.alive THEN 0 ELSE 1)

\* a Reader destroyed after its read callback reported an error
C15_Witness ==
    /\ ~rd.alive /\ rd.closed = 1
    /\ rd.status = "failed" /\ rd.error = "Read error occurred"

\* C19: when parse() returns normally with the End node, the hierarchy is
\* empty: a stream that ends with elements still open makes parse() fail.
C19_EndWithOpenElementsFails ==
    (pstatus = "returned" /\ bnode.type = "end") => hierarchy = <<>>

RootClosingError == "found closing tag at document root"

\* C20: a closing node that parse() holds while the hierarchy is empty makes
\* it fail with 'found closing tag at document root': the step that
\* processes the node fails with that error, and parse() never returns
\* normally with such a node, be it the first node of the document or a
\* node after the root's closing tag.
C20_ClosingAtRootFails ==
    [][ /\ (Dispatching /\ bnode.type = "closing" /\ hierarchy = <<>>) =>
               (pstatus' = "failed" /\ perror'.what = RootClosingError)
        /\ (pstatus = "running" /\ pstatus' = "returned" /\ bnode'.type = "closing") =>
               hierarchy' # <<>> ]_vars

\* the tag kinds whose opening tag a handler has a case for
Accepted(processNodeFunction) ==
    CASE processNodeFunction = "processRootNode" -> {"XOURNAL", "MRWRITER"}
      [] processNodeFunction = "processDocumentChildNode" ->
            {"TITLE", "PREVIEW", "PAGE", "AUDIO"}
      [] processNodeFunction = "processPageChildNode" -> {"BACKGROUND", "LAYER"}
      [] processNodeFunction = "processLayerChildNode" ->
            {"TIMESTAMP", "STROKE", "TEXT", "IMAGE", "TEXIMAGE"}
      [] processNodeFunction = "processAttachment" -> {"ATTACHMENT"}

\* the handlers below the root: their default case only warns
Lenient == TopFrame.proc # "processRootNode"

\* the step fails, and not because the Reader failed
HandlerFails == pstatus' = "failed" /\ perror'.what # "reader"

\* C21: an opening tag the current handler has no case for (a tag of unknown
\* name or a known tag at the wrong level) is pushed as its tag kind unless
\* it is empty, issues no LoadHandler call, leaves the handler in charge
\* and does not make parse() fail; its closing tag pops it without error.
C21_UnacceptedTagOnlyWarns ==
    [][ /\ (Dispatching /\ Lenient /\ bnode.type = "opening"
               /\ tagNameToType(bnode.name) \notin Accepted(TopFrame.proc)) =>
              /\ hierarchy' = IF bnode.empty THEN hierarchy
                              ELSE Append(hierarchy, tagNameToType(bnode.name))
              /\ events' = events
              /\ frames' = frames
              /\ ~HandlerFails
        /\ (Dispatching /\ Lenient /\ bnode.type = "closing"
               /\ Len(hierarchy) > TopFrame.startDepth
               /\ Top(hierarchy) \notin Accepted(TopFrame.proc)
               /\ tagNameToType(bnode.name) = Top(hierarchy)) =>
              /\ hierarchy' = Pop(hierarchy)
              /\ ~HandlerFails ]_vars

NullTerminateError == "Requested to null-terminate a string view outside the buffer."

\* the slices handed to nullTerminate(): those of the node held, and slices
\* that start before, in, at the end of and after the buffer
SlicesTried(r) ==
    Slices(r.returned)
        \cup {SV(r.base + o, n) : o \in {-2, -1, 0, 1, Len(r.buffer) - 2, Len(r.buffer) - 1,
                                        Len(r.buffer), Len(r.buffer) + 1},
                                  n \in 0..3}

\* C22: nullTerminate(sv) on a live Reader writes a NUL at the end of sv,
\* changes nothing else and returns the start of sv exactly when sv begins
\* at or after buffer.begin and ends strictly before buffer.end; in every
\* other case it throws and the buffer is as it was.
C22_NullTerminateInBufferOnly ==
    (rd.alive /\ rd.status = "ok") =>
        \A sv \in SlicesTried(rd) :
            With([res \in {nullTerminate(rd, sv)} |->
                IF sv.ptr >= rd.base /\ sv.ptr + sv.len < rd.base + Len(rd.buffer)
                THEN /\ res.r.status = "ok" /\ res.v = sv.ptr
                     /\ res.r.buffer[sv.ptr + sv.len - rd.base + 1] = 0
                     /\ \A i \in DOMAIN rd.buffer :
                           i # sv.ptr + sv.len - rd.base + 1 => res.r.buffer[i] = rd.buffer[i]
                     /\ res.r = [rd EXCEPT !.buffer = res.r.buffer]
                ELSE res.r = Throw(rd, NullTerminateError)])

\* the caller has null-terminated the name of the opening node it holds: the
\* byte read after the name is now a NUL
C22_Witness ==
    /\ rd.alive /\ rd.status = "ok" /\ rd.returned.type = "opening"
    /\ InBuffer(rd, rd.returned.name) /\ rd.returned.name.len > 0
    /\ rd.returned.name.ptr + rd.returned.name.len - rd.base < rd.dataEnd
    /\ rd.buffer[rd.returned.name.ptr + rd.returned.name.len - rd.base + 1] = 0

\* what the Reader must return for <a>, something discarded, x</a>
SkipExpected ==
    <<OpeningOf(Bytes(<<"a">>), FALSE, <<>>), TextOf(Bytes(<<"x">>)),
      ClosingOf(Bytes(<<"a">>)), EndOf>>

\* the bytes of the input the buffer holds between dataStart and dataEnd
Loaded(r) == SubSeq(input, r.inPos - (r.dataEnd - r.dataStart) + 1, r.inPos)

\* C23: an '&' inside a comment, a CDATA section, a declaration or a
\* processing instruction is skipped like any other byte: reading such a
\* stream never fails, readingOffset stays 0, the buffer holds the bytes of
\* the input unchanged, and the nodes around what is discarded are returned
\* as if the '&' were not there (the comment ends at its own '-->').
C23_NoExpansionInDiscarded ==
    (input \in SkipInputs /\ rd.status # "ub") =>
        /\ rd.status = "ok"
        /\ rd.readingOffset = 0
        /\ SubSeq(rd.buffer, rd.dataStart + 1, rd.dataEnd) = Loaded(rd)
        /\ IsPrefix(out, SkipExpected)
        /\ (~Active(rd) => out = SkipExpected)

CommentToken == Bytes(<<"<", "!", "-", "-", "c", "-", "-", ">">>)
StartsWith(bytes, prefix) ==
    Len(bytes) >= Len(prefix) /\ SubSeq(bytes, 1, Len(prefix)) = prefix
\* the bytes up to the next '<', or all of them
RECURSIVE UpToTag(_)
UpToTag(bytes) ==
    IF bytes = <<>> \/ Head(bytes) = Ch("<") THEN <<>>
    ELSE <<Head(bytes)>> \o UpToTag(Tail(bytes))

\* C24: a comment leaves the text mode as it was.  A readNode() call made
\* after an opening node that finds a comment and then text returns that
\* text as a Text node; a call made when the text mode is off (at the start
\* or after a closing node) that finds a comment returns no Text node.
C24_CommentKeepsTextMode ==
    [][ (ReadNodeCalled /\ rd'.status # "ub") =>
          /\ (rd.lastNodeWasOpening /\ StartsWith(Rest(rd), CommentToken)
                 /\ ~IsBlank(UpToTag(SkipIgnored(Rest(rd))))
                 /\ Len(UpToTag(SkipIgnored(Rest(rd)))) < Len(SkipIgnored(Rest(rd)))) =>
                (/\ rd'.status = "ok" /\ rd'.returned.type = "text"
                 /\ NodeContent(rd', rd'.returned).text = UpToTag(SkipIgnored(Rest(rd))))
          /\ (~rd.lastNodeWasOpening /\ StartsWith(TrimLeft(Rest(rd)), CommentToken)) =>
                ~(rd'.status = "ok" /\ rd'.returned.type = "text") ]_vars

\* the payload call of each kind of element
Payload(kind) ==
    CASE kind = "STROKE" -> "setStrokePoints"
      [] kind = "TEXT" -> "setTextContents"
      [] kind = "IMAGE" -> "setImageData"
      [] kind = "TEXIMAGE" -> "setTexImageData"

\* C25: a Text node that arrives while the top of the hierarchy is an open
\* STROKE, TEXT, IMAGE or TEXIMAGE of a layer issues that element's payload
\* call, whichever handler is in charge: also when the text of an image or
\* a TEX image follows an attachment child.
C25_TextRoutedToPayload ==
    [][ (Dispatching /\ passerts /\ bnode.type = "text" /\ Len(hierarchy) = 4
            /\ SubSeq(hierarchy, 1, 3) = <<"XOURNAL", "PAGE", "LAYER">>
            /\ Top(hierarchy) \in {"STROKE", "TEXT", "IMAGE", "TEXIMAGE"}) =>
          events' = Append(events, Payload(Top(hierarchy))) ]_vars

\* C26: a parse() call begins by reading exactly one node, calls no
\* LoadHandler function and leaves the hierarchy alone; when that node is
\* not an opening node the call ends there, the node being its result.
C26_FirstNodeNotOpeningReturned ==
    [][ (Running /\ ~TopFrame.entered /\ pstatus' # "failed") =>
          /\ \E o \in readNodeOutcomes(openNames) : bnode' = o.node /\ stream' = o.stream
          /\ events' = events /\ args' = args /\ hierarchy' = hierarchy
          /\ IF bnode'.type # "opening"
             THEN /\ frames' = Pop(frames)
                  /\ pstatus' = IF frames' = <<>> THEN "returned" ELSE "running"
             ELSE Len(frames') = Len(frames) /\ TopFrame'.entered ]_vars

\* parse(processAttachment), called for an <image>, has returned the Text
\* node it read first to processLayerChildNode's caller
C26_Witness ==
    /\ pstatus = "running" /\ passerts
    /\ TopFrame.proc = "processLayerChildNode" /\ TopFrame.entered
    /\ bnode.type = "text"
    /\ hierarchy = <<"XOURNAL", "PAGE", "LAYER", "IMAGE">>

\* the depth of bnode: the size of the hierarchy, one less for a closing node
EffectiveDepth == Len(hierarchy) - (IF bnode.type = "closing" THEN 1 ELSE 0)

\* C27: parse() passes a node to processNodeFunction only when its depth is
\* at least the size the hierarchy had when the call read its first node,
\* and a call that has entered its loop returns its node unprocessed with
\* the hierarchy at that size again.
C27_DepthBoundsDispatch ==
    [][ /\ Dispatching => EffectiveDepth >= TopFrame.startDepth
        /\ (Running /\ TopFrame.entered /\ frames' = Pop(frames)) =>
              (bnode' = bnode /\ hierarchy' = hierarchy
               /\ Len(hierarchy) = TopFrame.startDepth) ]_vars

\* C28: the Reader's cursors are in order, buffer.begin() <= dataStart <=
\* currentPos <= dataEnd <= buffer.end(), in every state between two
\* readNode() calls and at every refill, advance and replacement of a
\* character reference within a call.
C28_CursorsOrdered ==
    /\ CursorsOrdered(rd) /\ rd.ordered
    /\ CursorsOrdered(ref) /\ ref.ordered

\* a Reader that has grown its buffer and, in the call it has just
\* finished, moved the data under the node it was building
C28_Witness ==
    /\ Len(rd.buffer) > InitialBufferSize /\ rd.currentPos < rd.dataEnd
    /\ Len(rd.moveLog) > 0 /\ rd.status = "ok" /\ Len(out) >= 2

\* C29: once the root element's closing tag has been processed and
\* finalizeDocument() called, no node that follows issues a LoadHandler
\* call: trailing nodes are ignored with a warning.
C29_TrailingNodesIgnored ==
    [][ (Count(events, "finalizeDocument") > 0 /\ hierarchy = <<>> /\ pstatus = "running") =>
            (events' = events /\ ~HandlerFails) ]_vars

-----------------------------------------------------------------------------
\* processLayerChildNode is about to be given a Text node under a stroke
StrokeTextNode ==
    /\ Dispatching /\ TopFrame.proc = "processLayerChildNode"
    /\ bnode.type = "text"
    /\ hierarchy # <<>> /\ Top(hierarchy) = "STROKE"

\* the longest prefix of `tokens` that consists of complete pairs of doubles
PairsPrefix(tokens) ==
    LET n == CHOOSE k \in 0..(Len(tokens) \div 2) :
                 /\ \A i \in 1..(2 * k) : g_ascii_strtod(tokens[i]) # -1
                 /\ \A m \in (k + 1)..(Len(tokens) \div 2) :
                        \E i \in 1..(2 * m) : g_ascii_strtod(tokens[i]) = -1
    IN [i \in 1..n |-> <<g_ascii_strtod(tokens[2 * i - 1]), g_ascii_strtod(tokens[2 * i])>>]

\* C30: for each Text node under a stroke exactly one setStrokePoints call
\* is made; its points are the longest prefix of the text that consists of
\* complete, parseable "x y" pairs, and its pressures are those of the
\* attributes of that stroke.
C30_StrokePointsWithOwnPressures ==
    [][StrokeTextNode =>
           /\ events' = Append(events, "setStrokePoints")
           /\ args' = Append(args, <<PairsPrefix(bnode.text), strokePressures(strokeAttr)>>)]_vars

-----------------------------------------------------------------------------
\* C33: finalizeDocument is called at most once in a parse, whatever the
\* node stream is, closing tags and a second root element after the end of
\* the root element included.
C33_FinalizeDocumentAtMostOnce == Count(events, "finalizeDocument") <= 1

-----------------------------------------------------------------------------
\* C32: a stroke tag without a width attribute is parsed with the default
\* width: given to processLayerChildNode, it issues addStroke and does not
\* make parse() fail.
C32_MissingWidthUsesDefault ==
    [][ (Dispatching /\ TopFrame.proc = "processLayerChildNode"
            /\ bnode.type = "opening" /\ bnode.name = "stroke" /\ ~bnode.attrs) =>
            /\ pstatus' # "failed"
            /\ Count(events', "addStroke") = Count(events, "addStroke") + 1 ]_vars

-----------------------------------------------------------------------------
\* C34: the pressure buffer is empty whenever processLayerChildNode is about
\* to be given the opening tag of a stroke of a layer, also after a stroke
\* that was an empty element or had no text.
C34_PressureBufferEmptyAtStroke ==
    (Dispatching /\ TopFrame.proc = "processLayerChildNode"
        /\ hierarchy # <<>> /\ Top(hierarchy) = "LAYER"
        /\ bnode.type = "opening" /\ bnode.name = "stroke") =>
        pressureBuffer = <<>>

-----------------------------------------------------------------------------
\* processLayerChildNode is about to be given the empty element `name` of a layer
EmptyLayerChild(name) ==
    /\ Dispatching /\ TopFrame.proc = "processLayerChildNode"
    /\ hierarchy # <<>> /\ Top(hierarchy) = "LAYER"
    /\ bnode.type = "opening" /\ bnode.name = name /\ bnode.empty

\* C35: after an empty teximage element of a layer has been processed,
\* processLayerChildNode is still the handler that is given the nodes that
\* follow, as after an empty image element: no further parse() call is made.
C35_EmptyTexImageLikeEmptyImage ==
    [][ (EmptyLayerChild("teximage") \/ EmptyLayerChild("image")) => frames' = frames ]_vars

-----------------------------------------------------------------------------
\* C36: no xoj_assert of a handler fails, whatever the node stream is: at an
\* opening node the hierarchy is empty in processRootNode and its top is the
\* handler's own kind of element or UNKNOWN in the others, and the hierarchy
\* is not empty when a handler other than processRootNode is called.
C36_HandlerAssertionsHold == passerts

-----------------------------------------------------------------------------
\* parse() fails at this step because of the closing tag it was given
ClosingTagFails ==
    /\ pstatus = "running" /\ pstatus' = "failed"
    /\ perror'.what \in {MismatchError, RootClosingError}

\* C40: when parse() fails because a closing tag does not match the last
\* open element, or comes with no element open, no call is made on the
\* LoadHandler on account of that tag: the calls are those made before it.
C40_NoEventForOffendingClose ==
    [][ ClosingTagFails => (events' = events /\ args' = args) ]_vars

-----------------------------------------------------------------------------
\* C37: once the read callback has returned 0, hasMoreData stays false and
\* the read callback is not invoked again, whatever readNode() calls follow.
C37_NoReadAfterEof ==
    [][ ~rd'.calledAtEof /\ (~rd.hasMoreData => ~rd'.hasMoreData) ]_vars

-----------------------------------------------------------------------------
\* C38: the replacement of a character reference is written inside the
\* bytes of the node being built and not after the ';' of the reference,
\* and readingOffset is never negative.
C38_ReplacementWithinReference == rd.refsOk /\ rd.readingOffset >= 0

-----------------------------------------------------------------------------
(* Two Readers on the same bytes, fed by the same schedule: the caller of   *)
(* rd null-terminates slices of the node it holds, the caller of ref never. *)

InitTwin ==
    /\ \E d \in Docs :
          /\ input = d.input
          /\ expected = d.expected
          /\ wellFormed = ("unknown" \notin Kinds(d.content))
    /\ \E s \in Schedules, h \in BOOLEAN :
          /\ rd = NewReader(s, h)
          /\ ref = NewReader(s, h)
    /\ out = <<>>
    /\ refOut = <<>>
    /\ ParserIdle

NextTwin == ReadNode \/ NullTerminate

SpecTwin == InitTwin /\ [][NextTwin]_vars

\* C39: null-terminating slices of the node returned last does not change
\* the nodes the readNode() calls after it return: they are the nodes the
\* same calls return when no slice is ever null-terminated.
C39_NullTerminateKeepsNodes ==
    \A i \in 1..Len(out) : i <= Len(refOut) => out[i] = refOut[i]

-----------------------------------------------------------------------------
(* parse() under a scheduler that runs a call while it has a step to take; *)
(* the streams are those of InitParser with at most MaxFreeLive free nodes *)

MaxFreeLive == 2

InitParserLive == InitParser /\ stream.free <= MaxFreeLive

SpecParserLive == InitParserLive /\ [][NextParser]_vars /\ WF_vars(NextParser)

\* parse() reads its first node, or a handler is called, and the call neither
\* fails nor calls parse()
TurnWithoutCall ==
    /\ Running /\ (~TopFrame.entered \/ Dispatching)
    /\ pstatus' # "failed" /\ Len(frames') <= Len(frames)

====
